---- MODULE Spec2Model ----
(***************************************************************************)
(* A model of the 6502 emulator core of emulator_e6502 (crate `emul`):     *)
(* the register file, the status flags, the RAM, the addressing-mode       *)
(* resolver, the opcode handlers and execute_instruction.                  *)
(*                                                                         *)
(* A processor value is the record                                         *)
(*   [registers |-> [a, x, y, sp, pc, status], memory |-> ram, trap |-> b] *)
(* `trap` records that an unchecked `+` of the source overflowed its       *)
(* width: with overflow checks compiled in (the debug and test profiles)   *)
(* the call panics there, without them (the release profile) the value     *)
(* wraps.  The values carried by the record are always the wrapped ones.   *)
(***************************************************************************)
EXTENDS Integers, Sequences, FiniteSets, TLC

\* ------------------------------------------------------------------ bounds
\* How far from 0x00, 0x80 and 0x100 the sampled byte values reach.
Edge == 1
\* How many execute_instruction / reset calls follow one arrangement.
MaxSteps == 2
\* How many direct handler calls follow one arrangement.
MaxCalls == 1
\* How many PHA/PLA pairs may be nested between a JSR and its RTS.
MaxDepth == 2
\* The longest byte sequence handed to Ram::load.
MaxLen == 3

\* --------------------------------------------------------- program constants
MEMORY_SIZE == 65536
STACK_SIZE == 256
RESET_ADDRESS_LOW == 65532
RESET_ADDRESS_HIGH == 65533
IRQ_VECTOR == 65534

Carry == 1
Zero == 2
Interrupt == 4
Decimal == 8
Break == 16
Unused == 32
Overflow == 64
Negative == 128

Byte == 0..255
Word == 0..65535

\* ------------------------------------------------------------ bit operations
RECURSIVE BitAnd(_, _)
BitAnd(m, n) ==
    IF m = 0 \/ n = 0 THEN 0
    ELSE (m % 2) * (n % 2) + 2 * BitAnd(m \div 2, n \div 2)

RECURSIVE BitOr(_, _)
BitOr(m, n) ==
    IF m = 0 THEN n
    ELSE IF n = 0 THEN m
    ELSE (IF m % 2 = 1 \/ n % 2 = 1 THEN 1 ELSE 0) + 2 * BitOr(m \div 2, n \div 2)

RECURSIVE BitXor(_, _)
BitXor(m, n) ==
    IF m = 0 THEN n
    ELSE IF n = 0 THEN m
    ELSE ((m + n) % 2) + 2 * BitXor(m \div 2, n \div 2)

\* u8 / u16 helpers: the wrapped value of an unsigned sum or difference.
wrap8(s) == s % 256
wrap16(s) == s % 65536

\* ---------------------------------------------------------------------- Ram
\* The 65536-byte array is kept sparsely: an address outside the domain holds
\* 0, and no address of the domain holds 0, so equal arrays are equal values.
Ram_new == [k \in {} |-> 0]

Ram_read(ram, address) ==
    IF address \in DOMAIN ram THEN ram[address] ELSE 0

\* [mutant] a write that skips the store of a zero byte.
Ram_write_nonzero(ram, address, data) ==
    IF data = 0
    THEN ram
    ELSE [k \in (DOMAIN ram) \cup {address} |-> IF k = address THEN data ELSE ram[k]]

Ram_write(ram, address, data) ==
    IF data = 0
    THEN [k \in (DOMAIN ram) \ {address} |-> ram[k]]
    ELSE [k \in (DOMAIN ram) \cup {address} |-> IF k = address THEN data ELSE ram[k]]

\* load: `self.write(offset + i as Address, byte)` for each byte in turn; the
\* unchecked u16 sum wraps, and overflows when offset + i exceeds 0xFFFF.
RECURSIVE Ram_load_from(_, _, _, _)
Ram_load_from(ram, data, offset, i) ==
    IF i >= Len(data)
    THEN ram
    ELSE Ram_load_from(Ram_write(ram, (offset + i) % 65536, data[i + 1]),
                       data, offset, i + 1)

Ram_load(ram, data, offset) ==
    [memory |-> Ram_load_from(ram, data, offset, 0),
     trap   |-> \E i \in 0..(Len(data) - 1) : offset + i > 65535]

\* reset: `self.memory = [0; MEMORY_SIZE]`
Ram_reset(ram) == Ram_new

\* ---------------------------------------------------------------- Registers
Registers_new == [a |-> 0, x |-> 0, y |-> 0, sp |-> 0, pc |-> 0, status |-> 0]

Cpu6502_new(ram) == [registers |-> Registers_new, memory |-> ram, trap |-> FALSE]

\* An unchecked `+` whose mathematical result is s: note the overflow.
ovf8(cpu, s) == [cpu EXCEPT !.trap = @ \/ s > 255]
ovf16(cpu, s) == [cpu EXCEPT !.trap = @ \/ s > 65535]

\* ------------------------------------------------------------------ Cpu6502
\* [mutant] reset that reads the vector high byte first.
reset_high_first(cpu) ==
    [cpu EXCEPT !.registers =
        [a |-> 0, x |-> 0, y |-> 0, sp |-> 255, status |-> 0,
         pc |-> 256 * Ram_read(cpu.memory, RESET_ADDRESS_LOW)
                + Ram_read(cpu.memory, RESET_ADDRESS_HIGH)]]

\* [mutant] reset that also clears the memory, as get_cpu() does after it.
reset_with_memory(cpu) ==
    [cpu EXCEPT !.registers =
        [a |-> 0, x |-> 0, y |-> 0, sp |-> 255, status |-> 0,
         pc |-> Ram_read(cpu.memory, RESET_ADDRESS_LOW)
                + 256 * Ram_read(cpu.memory, RESET_ADDRESS_HIGH)],
                !.memory = Ram_new]

reset(cpu) ==
    [cpu EXCEPT !.registers =
        [a |-> 0, x |-> 0, y |-> 0, sp |-> 255, status |-> 0,
         pc |-> Ram_read(cpu.memory, RESET_ADDRESS_LOW)
                + 256 * Ram_read(cpu.memory, RESET_ADDRESS_HIGH)]]

\* read_byte: `self.registers.pc += 1`, then the byte at `address`.
read_byte(cpu, address) ==
    [cpu   |-> [ovf16(cpu, cpu.registers.pc + 1) EXCEPT !.registers.pc = wrap16(@ + 1)],
     value |-> Ram_read(cpu.memory, address)]

\* A read result: the processor after the read and the value read.
result_of(cpu, value) == [cpu |-> cpu, value |-> value]

\* `low | (high << 8)`, with the processor after the high byte's read.
with_low(high, low) == [cpu |-> high.cpu, value |-> low + 256 * high.value]

\* read_word: two read_byte calls, the second at `address + 1`; read_high is
\* the second one, given the result of the first.
read_high(low, address) ==
    with_low(read_byte(ovf16(low.cpu, address + 1), wrap16(address + 1)), low.value)

read_word(cpu, address) == read_high(read_byte(cpu, address), address)

\* write_byte: `self.registers.pc += 1`, then the store.
write_byte(cpu, address, data) ==
    [ovf16(cpu, cpu.registers.pc + 1) EXCEPT
        !.registers.pc = wrap16(@ + 1),
        !.memory = Ram_write(@, address, data)]

\* [mutant] set_flag whose clearing branch clears the whole status byte.
set_flag_clear_all(cpu, flag, value) ==
    [cpu EXCEPT !.registers.status = IF value THEN BitOr(@, flag) ELSE 0]

set_flag(cpu, flag, value) ==
    [cpu EXCEPT !.registers.status =
        IF value THEN BitOr(@, flag) ELSE BitAnd(@, 255 - flag)]

get_flag(cpu, flag) == BitAnd(cpu.registers.status, flag) # 0

\* [mutant] push_stack that moves the pointer before it stores.
push_stack_after_decrement(cpu, data) ==
    [cpu EXCEPT
        !.memory = Ram_write(@, STACK_SIZE + wrap8(cpu.registers.sp + 255), data),
        !.registers.sp = wrap8(@ + 255)]

push_stack(cpu, data) ==
    [cpu EXCEPT
        !.memory = Ram_write(@, STACK_SIZE + cpu.registers.sp, data),
        !.registers.sp = wrap8(@ + 255)]

pop_stack(cpu) ==
    [cpu   |-> [cpu EXCEPT !.registers.sp = wrap8(@ + 1)],
     value |-> Ram_read(cpu.memory, STACK_SIZE + wrap8(cpu.registers.sp + 1))]

\* pop_word_stack: the low byte's pop, then the high byte's.
pop_high(low) == with_low(pop_stack(low.cpu), low.value)

\* [mutant] push_word_stack that pushes the low byte first.
push_word_stack_low_first(cpu, data) ==
    push_stack(push_stack(cpu, data % 256), data \div 256)

push_word_stack(cpu, data) ==
    push_stack(push_stack(cpu, data \div 256), data % 256)

pop_word_stack(cpu) == pop_high(pop_stack(cpu))

\* ----------------------------------------------------------- AddressingMode
AddressingModes ==
    {"Implied", "Immediate", "ZeroPage", "ZeroPageX", "ZeroPageY", "Absolute",
     "AbsoluteX", "AbsoluteY", "Indirect", "IndirectX", "IndirectY", "Relative",
     "Accumulator"}

\* `byte + index` on u8 (unchecked) and `word + index as u16` (unchecked).
index8(b, index) == result_of(ovf8(b.cpu, b.value + index), wrap8(b.value + index))
index16(w, index) == result_of(ovf16(w.cpu, w.value + index), wrap16(w.value + index))

\* Indirect: the low byte at the pointer, the high byte at pointer + 1, or at
\* the start of the pointer's page when the pointer's low byte is 0xFF.
\* [mutant] Indirect that always takes the high byte from pointer + 1.
indirect_high_next(low, pointer) ==
    with_low(read_byte(low.cpu, wrap16(pointer + 1)), low.value)

indirect_high(low, pointer) ==
    with_low(read_byte(low.cpu, IF pointer % 256 = 255 THEN pointer - 255 ELSE pointer + 1),
             low.value)

indirect(w) == indirect_high(read_byte(w.cpu, w.value), w.value)

\* IndirectX, IndirectY: read_word at the zero-page address a byte names.
read_word_at(b) == read_word(b.cpu, b.value)

\* get_address: the effective address and the processor after the operand
\* fetches (every read_byte moves pc).  `pc + 1` is the unchecked u16 sum of
\* the source, evaluated before the call it is an argument of.
operand_byte(cpu) == read_byte(ovf16(cpu, cpu.registers.pc + 1), wrap16(cpu.registers.pc + 1))
operand_word(cpu) == read_word(ovf16(cpu, cpu.registers.pc + 1), wrap16(cpu.registers.pc + 1))

get_address(cpu, mode) ==
    CASE mode = "Implied" -> result_of(cpu, 0)
      [] mode = "Immediate" ->
            result_of([ovf16(cpu, cpu.registers.pc + 1) EXCEPT !.registers.pc = wrap16(@ + 1)],
                      wrap16(cpu.registers.pc + 1))
      [] mode = "ZeroPage" -> operand_byte(cpu)
      [] mode = "ZeroPageX" -> index8(operand_byte(cpu), cpu.registers.x)
      [] mode = "ZeroPageY" -> index8(operand_byte(cpu), cpu.registers.y)
      [] mode = "Absolute" -> operand_word(cpu)
      [] mode = "AbsoluteX" -> index16(operand_word(cpu), cpu.registers.x)
      [] mode = "AbsoluteY" -> index16(operand_word(cpu), cpu.registers.y)
      [] mode = "Indirect" -> indirect(operand_word(cpu))
      [] mode = "IndirectX" -> read_word_at(index8(operand_byte(cpu), cpu.registers.x))
      [] mode = "IndirectY" ->
            index16(read_word_at(operand_byte(cpu)), cpu.registers.y)
      [] mode = "Relative" -> operand_byte(cpu)
      [] mode = "Accumulator" -> result_of(cpu, cpu.registers.a)

\* ------------------------------------------------------- cpu/function.rs
\* `self.registers.pc += 1` (unchecked) and `pc.wrapping_add(1)` (wrapping).
pc_add_assign(cpu) ==
    [ovf16(cpu, cpu.registers.pc + 1) EXCEPT !.registers.pc = wrap16(@ + 1)]

\* [mutant] an add that leaves the 16-bit range.
pc_add_unbounded(cpu) == [cpu EXCEPT !.registers.pc = @ + 1]

pc_wrapping_add(cpu) == [cpu EXCEPT !.registers.pc = wrap16(@ + 1)]

\* The Zero and Negative flags of a result byte, as every handler sets them.
set_zn(cpu, result) ==
    set_flag(set_flag(cpu, Zero, result = 0), Negative, BitAnd(result, 128) # 0)

\* `(a ^ result) & (value ^ result) & 0x80 != 0`
sign_overflow(a, value, result) ==
    BitAnd(BitAnd(BitXor(a, result), BitXor(value, result)), 128) # 0

\* The operand fetch that opens most handlers: `let address =
\* mode.get_address(cpu); let value = cpu.read_byte(address);`
fetched(r, address) == [cpu |-> r.cpu, address |-> address, value |-> r.value]
fetch_at(g) == fetched(read_byte(g.cpu, g.value), g.value)
fetch(cpu, mode) == fetch_at(get_address(cpu, mode))

carry_in(cpu) == IF get_flag(cpu, Carry) THEN 1 ELSE 0

\* [mutant] adc whose Overflow compares the accumulator with the operand.
adc_with_operand_sign(cpu, a, value, result) ==
    [set_flag(set_zn(set_flag(cpu, Carry, result < a \/ result < value), result),
              Overflow, BitAnd(BitXor(a, value), 128) # 0)
        EXCEPT !.registers.a = result]

\* adc, after the operand fetch f and with the sum computed.
adc_with(cpu, a, value, result) ==
    [set_flag(set_zn(set_flag(cpu, Carry, result < a \/ result < value), result),
              Overflow, sign_overflow(a, value, result))
        EXCEPT !.registers.a = result]

\* [mutant] adc that forgets the carry-in.
adc_on_without_carry(f) ==
    adc_with(f.cpu, f.cpu.registers.a, f.value, wrap8(f.cpu.registers.a + f.value))

adc_on(f) ==
    adc_with(f.cpu, f.cpu.registers.a, f.value,
             wrap8(wrap8(f.cpu.registers.a + f.value) + carry_in(f.cpu)))

adc(cpu, mode) == adc_on(fetch(cpu, mode))

\* `cpu.registers.pc = address`, address being the value of a read result.
jump(g) == [g.cpu EXCEPT !.registers.pc = g.value]

\* [mutant] brk that pushes the status byte as it is.
brk_status_as_is(cpu) ==
    set_flag(push_stack(cpu, cpu.registers.status), Interrupt, TRUE)

brk_status(cpu) ==
    set_flag(push_stack(cpu, BitOr(cpu.registers.status, Break)), Interrupt, TRUE)

brk(cpu, mode) ==
    jump(read_word(brk_status(push_word_stack(cpu, cpu.registers.pc)), IRQ_VECTOR))

\* [mutant] cmp that keeps the difference in the accumulator, as sbc does.
cmp_with_store(cpu, a, value) ==
    [set_zn(set_flag(cpu, Carry, a >= value), wrap8(a + 256 - value))
        EXCEPT !.registers.a = wrap8(a + 256 - value)]

cmp_with(cpu, a, value) ==
    set_zn(set_flag(cpu, Carry, a >= value), wrap8(a + 256 - value))

cmp_on(f) == cmp_with(f.cpu, f.cpu.registers.a, f.value)

cmp(cpu, mode) == cmp_on(fetch(cpu, mode))

\* `cpu.write_byte(address, value)`, then Zero and Negative from value.
store_zn(cpu, address, value) == set_zn(write_byte(cpu, address, value), value)

dec_on(f) == store_zn(f.cpu, f.address, wrap8(f.value + 255))

dec(cpu, mode) == dec_on(fetch(cpu, mode))

\* `cpu.registers.a = result`, then Zero and Negative from it.
load_a(cpu, result) == set_zn([cpu EXCEPT !.registers.a = result], result)
\* [mutant] the X load that sets Zero and leaves Negative as it was.
load_x_zero_only(cpu, result) ==
    set_flag([cpu EXCEPT !.registers.x = result], Zero, result = 0)

load_x(cpu, result) == set_zn([cpu EXCEPT !.registers.x = result], result)
load_y(cpu, result) == set_zn([cpu EXCEPT !.registers.y = result], result)

eor_on(f) == load_a(f.cpu, BitXor(f.cpu.registers.a, f.value))

eor(cpu, mode) == eor_on(fetch(cpu, mode))

\* [mutant] inc whose Zero and Negative come from the operand it read.
inc_on_flags_of_operand(f) ==
    set_zn(write_byte(f.cpu, f.address, wrap8(f.value + 1)), f.value)

inc_on(f) == store_zn(f.cpu, f.address, wrap8(f.value + 1))

inc(cpu, mode) == inc_on(fetch(cpu, mode))

jmp(cpu, mode) == jump(get_address(cpu, mode))

lda_on(f) == load_a(f.cpu, f.value)
ldx_on(f) == load_x(f.cpu, f.value)
ldy_on(f) == load_y(f.cpu, f.value)

lda(cpu, mode) == lda_on(fetch(cpu, mode))
ldx(cpu, mode) == ldx_on(fetch(cpu, mode))
ldy(cpu, mode) == ldy_on(fetch(cpu, mode))

lsr_on(f) ==
    store_zn(set_flag(f.cpu, Carry, f.value % 2 = 1), f.address, f.value \div 2)

lsr(cpu, mode) == lsr_on(fetch(cpu, mode))

\* [mutant] ora that combines with exclusive-or.
ora_on_exclusive(f) == load_a(f.cpu, BitXor(f.cpu.registers.a, f.value))

ora_on(f) == load_a(f.cpu, BitOr(f.cpu.registers.a, f.value))

ora(cpu, mode) == ora_on(fetch(cpu, mode))

pha(cpu, mode) == pc_wrapping_add(push_stack(cpu, cpu.registers.a))

\* [mutant] php that pushes the status byte as it is.
php_as_is(cpu, mode) == pc_wrapping_add(push_stack(cpu, cpu.registers.status))

php(cpu, mode) ==
    pc_wrapping_add(push_stack(cpu, BitOr(cpu.registers.status, Break)))

pla_on(p) == pc_wrapping_add(load_a(p.cpu, p.value))

pla(cpu, mode) == pla_on(pop_stack(cpu))

plp_on(p) == pc_add_assign([p.cpu EXCEPT !.registers.status = p.value])

plp(cpu, mode) == plp_on(pop_stack(cpu))

\* rol and ror store into the accumulator when called with Immediate, and
\* into memory at the resolved address with every other mode.
rotate_store(cpu, mode, address, value) ==
    pc_add_assign(set_zn(IF mode = "Immediate"
                         THEN [cpu EXCEPT !.registers.a = value]
                         ELSE write_byte(cpu, address, value),
                         value))

\* [mutant] rol that shifts a 0 in, as asl does.
rol_on_shift_only(f, mode) ==
    rotate_store(set_flag(f.cpu, Carry, BitAnd(f.value, 128) # 0), mode, f.address,
                 wrap8(2 * f.value))

rol_on(f, mode) ==
    rotate_store(set_flag(f.cpu, Carry, BitAnd(f.value, 128) # 0), mode, f.address,
                 BitOr(wrap8(2 * f.value), carry_in(f.cpu)))

rol(cpu, mode) == rol_on(fetch(cpu, mode), mode)

ror_on(f, mode) ==
    rotate_store(set_flag(f.cpu, Carry, f.value % 2 = 1), mode, f.address,
                 BitOr(f.value \div 2, 128 * carry_in(f.cpu)))

ror(cpu, mode) == ror_on(fetch(cpu, mode), mode)

rti_status(p) == [p.cpu EXCEPT !.registers.status = p.value]

\* [mutant] rti that resumes one past the popped address, as rts does.
rti_like_rts(cpu, mode) ==
    pc_add_assign(jump(pop_word_stack(rti_status(pop_stack(cpu)))))

rti(cpu, mode) == jump(pop_word_stack(rti_status(pop_stack(cpu))))

\* [mutant] rts that resumes at the popped address itself.
rts_without_increment(cpu, mode) == jump(pop_word_stack(cpu))

rts(cpu, mode) == pc_add_assign(jump(pop_word_stack(cpu)))

\* sbc, after the operand fetch and with the difference computed.
sbc_with(cpu, a, value, result) ==
    pc_add_assign(
        [set_flag(set_zn(set_flag(cpu, Carry, result <= a), result),
                  Overflow, sign_overflow(a, value, result))
            EXCEPT !.registers.a = result])

sbc_on(f) ==
    sbc_with(f.cpu, f.cpu.registers.a, f.value,
             wrap8(wrap8(f.cpu.registers.a + 256 - f.value) + 255 + carry_in(f.cpu)))

sbc(cpu, mode) == sbc_on(fetch(cpu, mode))

\* [mutant] sta that stores X.
sta_at_x(g) == write_byte(g.cpu, g.value, g.cpu.registers.x)

sta_at(g) == write_byte(g.cpu, g.value, g.cpu.registers.a)
stx_at(g) == write_byte(g.cpu, g.value, g.cpu.registers.x)
sty_at(g) == write_byte(g.cpu, g.value, g.cpu.registers.y)

sta(cpu, mode) == sta_at(get_address(cpu, mode))
stx(cpu, mode) == stx_at(get_address(cpu, mode))
sty(cpu, mode) == sty_at(get_address(cpu, mode))

tax(cpu, mode) ==
    set_zn(pc_wrapping_add([cpu EXCEPT !.registers.x = cpu.registers.a]), cpu.registers.a)

tay(cpu, mode) ==
    set_zn(pc_wrapping_add([cpu EXCEPT !.registers.y = cpu.registers.a]), cpu.registers.a)

tsx(cpu, mode) ==
    set_zn(pc_add_assign([cpu EXCEPT !.registers.x = cpu.registers.sp]), cpu.registers.sp)

txa(cpu, mode) ==
    set_zn(pc_wrapping_add([cpu EXCEPT !.registers.a = cpu.registers.x]), cpu.registers.x)

txs(cpu, mode) == pc_wrapping_add([cpu EXCEPT !.registers.sp = cpu.registers.x])

tya(cpu, mode) ==
    set_zn(pc_wrapping_add([cpu EXCEPT !.registers.a = cpu.registers.y]), cpu.registers.y)

\* The eight branches share one body: the flag tested and the value of it
\* that takes the branch.  A taken branch stores the resolved address in pc.
branch_to(g, flag, wanted) ==
    IF get_flag(g.cpu, flag) = wanted
    THEN [g.cpu EXCEPT !.registers.pc = g.value]
    ELSE pc_wrapping_add(g.cpu)

\* [mutant] bcc that branches on Carry set.
bcc_on_carry_set(cpu, mode) == branch_to(get_address(cpu, mode), Carry, TRUE)

bcc(cpu, mode) == branch_to(get_address(cpu, mode), Carry, FALSE)
bcs(cpu, mode) == branch_to(get_address(cpu, mode), Carry, TRUE)
beq(cpu, mode) == branch_to(get_address(cpu, mode), Zero, TRUE)
bmi(cpu, mode) == branch_to(get_address(cpu, mode), Negative, TRUE)
bne(cpu, mode) == branch_to(get_address(cpu, mode), Zero, FALSE)
bpl(cpu, mode) == branch_to(get_address(cpu, mode), Negative, FALSE)
bvc(cpu, mode) == branch_to(get_address(cpu, mode), Overflow, FALSE)
bvs(cpu, mode) == branch_to(get_address(cpu, mode), Overflow, TRUE)

clc(cpu, mode) == pc_wrapping_add(set_flag(cpu, Carry, FALSE))
cld(cpu, mode) == pc_wrapping_add(set_flag(cpu, Decimal, FALSE))
cli(cpu, mode) == pc_wrapping_add(set_flag(cpu, Interrupt, FALSE))
clv(cpu, mode) == pc_wrapping_add(set_flag(cpu, Overflow, FALSE))
sec(cpu, mode) == pc_wrapping_add(set_flag(cpu, Carry, TRUE))
sed(cpu, mode) == pc_wrapping_add(set_flag(cpu, Decimal, TRUE))
sei(cpu, mode) == pc_wrapping_add(set_flag(cpu, Interrupt, TRUE))
\* [mutant] nop with an empty body.
nop_idle(cpu, mode) == cpu

nop(cpu, mode) == pc_wrapping_add(cpu)

bit_on(f) ==
    pc_wrapping_add(
        set_flag(set_flag(set_flag(f.cpu, Zero, BitAnd(f.cpu.registers.a, f.value) = 0),
                          Negative, BitAnd(f.value, 128) # 0),
                 Overflow, BitAnd(f.value, 64) # 0))

bit(cpu, mode) == bit_on(fetch(cpu, mode))

kil(cpu, mode) == pc_wrapping_add(cpu)

\* The handlers whose body is `// todo`: they return without touching cpu.
todo(cpu, mode) == cpu

\* isc: the operand minus one is stored, then compared with the accumulator;
\* Carry is `a >= result`, result being the difference.
isc_compare(cpu, a, result) == set_zn(set_flag(cpu, Carry, a >= result), result)

isc_stored(cpu, stored) ==
    isc_compare(cpu, cpu.registers.a, wrap8(cpu.registers.a + 256 - stored))

isc_on(f) == isc_stored(write_byte(f.cpu, f.address, wrap8(f.value + 255)),
                        wrap8(f.value + 255))

isc(cpu, mode) == isc_on(fetch(cpu, mode))

\* asl: the flags from the operand value and the shifted result.
asl_flags(cpu, value, result) ==
    set_zn(set_flag(cpu, Carry, BitAnd(value, 128) # 0), result)

asl_on(f) ==
    asl_flags(write_byte(f.cpu, f.address, wrap8(2 * f.value)), f.value,
              wrap8(2 * f.value))

asl(cpu, mode) ==
    IF mode = "Accumulator"
    THEN asl_flags([cpu EXCEPT !.registers.a = wrap8(2 * @)], cpu.registers.a,
                   wrap8(2 * cpu.registers.a))
    ELSE asl_on(fetch(cpu, mode))

jsr_at(g) ==
    [push_word_stack(g.cpu, g.cpu.registers.pc) EXCEPT !.registers.pc = g.value]

jsr(cpu, mode) == jsr_at(get_address(cpu, mode))

and_on(f) == pc_wrapping_add(load_a(f.cpu, BitAnd(f.cpu.registers.a, f.value)))

and(cpu, mode) == and_on(fetch(cpu, mode))

inx_on(f) == pc_add_assign(load_x(f.cpu, wrap8(f.value + 1)))

inx(cpu, mode) == inx_on(fetch(cpu, mode))

\* The handlers of function.rs that are only declared.
TodoHandlers ==
    {"lax", "sax", "dcp", "rla", "rra", "slo", "sre", "anc", "alr", "arr", "xaa",
     "axs", "ahx", "tas", "shx", "shy", "las", "cpy", "cpx", "iny", "dey", "dex",
     "asr"}

\* `(instruction.execute)(self, addressing_mode)`: the call through the
\* handler reference, by the handler's name.
execute(name, cpu, mode) ==
    CASE name = "adc" -> adc(cpu, mode) [] name = "brk" -> brk(cpu, mode)
      [] name = "cmp" -> cmp(cpu, mode) [] name = "dec" -> dec(cpu, mode)
      [] name = "eor" -> eor(cpu, mode) [] name = "inc" -> inc(cpu, mode)
      [] name = "jmp" -> jmp(cpu, mode) [] name = "lda" -> lda(cpu, mode)
      [] name = "ldx" -> ldx(cpu, mode) [] name = "ldy" -> ldy(cpu, mode)
      [] name = "lsr" -> lsr(cpu, mode) [] name = "ora" -> ora(cpu, mode)
      [] name = "pha" -> pha(cpu, mode) [] name = "php" -> php(cpu, mode)
      [] name = "pla" -> pla(cpu, mode) [] name = "plp" -> plp(cpu, mode)
      [] name = "rol" -> rol(cpu, mode) [] name = "ror" -> ror(cpu, mode)
      [] name = "rti" -> rti(cpu, mode) [] name = "rts" -> rts(cpu, mode)
      [] name = "sbc" -> sbc(cpu, mode) [] name = "sta" -> sta(cpu, mode)
      [] name = "stx" -> stx(cpu, mode) [] name = "sty" -> sty(cpu, mode)
      [] name = "tax" -> tax(cpu, mode) [] name = "tay" -> tay(cpu, mode)
      [] name = "tsx" -> tsx(cpu, mode) [] name = "txa" -> txa(cpu, mode)
      [] name = "txs" -> txs(cpu, mode) [] name = "tya" -> tya(cpu, mode)
      [] name = "bcc" -> bcc(cpu, mode) [] name = "bcs" -> bcs(cpu, mode)
      [] name = "beq" -> beq(cpu, mode) [] name = "bmi" -> bmi(cpu, mode)
      [] name = "bne" -> bne(cpu, mode) [] name = "bpl" -> bpl(cpu, mode)
      [] name = "bvc" -> bvc(cpu, mode) [] name = "bvs" -> bvs(cpu, mode)
      [] name = "clc" -> clc(cpu, mode) [] name = "cld" -> cld(cpu, mode)
      [] name = "cli" -> cli(cpu, mode) [] name = "clv" -> clv(cpu, mode)
      [] name = "sec" -> sec(cpu, mode) [] name = "sed" -> sed(cpu, mode)
      [] name = "sei" -> sei(cpu, mode) [] name = "nop" -> nop(cpu, mode)
      [] name = "bit" -> bit(cpu, mode) [] name = "kil" -> kil(cpu, mode)
      [] name = "isc" -> isc(cpu, mode) [] name = "asl" -> asl(cpu, mode)
      [] name = "jsr" -> jsr(cpu, mode) [] name = "and" -> and(cpu, mode)
      [] name = "inx" -> inx(cpu, mode)
      [] name \in TodoHandlers -> todo(cpu, mode)

\* ------------------------------------------------------ cpu/instruction.rs
\* The instruction table: the descriptor of every opcode 0..255 (mnemonic,
\* addressing mode, length in bytes); the handler is the function of
\* cpu/function.rs that carries the mnemonic's name.  Entry k + 1 of the
\* sequence describes opcode k.  Lengths: 1 for Implied and Accumulator, 3
\* for the Absolute modes and Indirect, 2 for every other mode.
I(name, mode, length) == [name |-> name, addressing_mode |-> mode, length |-> length]

INSTRUCTIONS ==
    <<
       I("BRK", "Implied", 1), I("ORA", "IndirectX", 2),
       I("KIL", "Implied", 1), I("SLO", "IndirectX", 2),
       I("NOP", "ZeroPage", 2), I("ORA", "ZeroPage", 2),
       I("ASL", "ZeroPage", 2), I("SLO", "ZeroPage", 2),
       I("PHP", "Implied", 1), I("ORA", "Immediate", 2),
       I("ASL", "Accumulator", 1), I("ANC", "Immediate", 2),
       I("NOP", "Absolute", 3), I("ORA", "Absolute", 3),
       I("ASL", "Absolute", 3), I("SLO", "Absolute", 3),
       I("BPL", "Relative", 2), I("ORA", "IndirectY", 2),
       I("KIL", "Implied", 1), I("SLO", "IndirectY", 2),
       I("NOP", "ZeroPageX", 2), I("ORA", "ZeroPageX", 2),
       I("ASL", "ZeroPageX", 2), I("SLO", "ZeroPageX", 2),
       I("CLC", "Implied", 1), I("ORA", "AbsoluteY", 3),
       I("NOP", "Implied", 1), I("SLO", "AbsoluteY", 3),
       I("NOP", "AbsoluteX", 3), I("ORA", "AbsoluteX", 3),
       I("ASL", "AbsoluteX", 3), I("SLO", "AbsoluteX", 3),
       I("JSR", "Absolute", 3), I("AND", "IndirectX", 2),
       I("KIL", "Implied", 1), I("RLA", "IndirectX", 2),
       I("BIT", "ZeroPage", 2), I("AND", "ZeroPage", 2),
       I("ROL", "ZeroPage", 2), I("RLA", "ZeroPage", 2),
       I("PLP", "Implied", 1), I("AND", "Immediate", 2),
       I("ROL", "Accumulator", 1), I("ANC", "Immediate", 2),
       I("BIT", "Absolute", 3), I("AND", "Absolute", 3),
       I("ROL", "Absolute", 3), I("RLA", "Absolute", 3),
       I("BMI", "Relative", 2), I("AND", "IndirectY", 2),
       I("KIL", "Implied", 1), I("RLA", "IndirectY", 2),
       I("NOP", "ZeroPageX", 2), I("AND", "ZeroPageX", 2),
       I("ROL", "ZeroPageX", 2), I("RLA", "ZeroPageX", 2),
       I("SEC", "Implied", 1), I("AND", "AbsoluteY", 3),
       I("NOP", "Implied", 1), I("RLA", "AbsoluteY", 3),
       I("NOP", "AbsoluteX", 3), I("AND", "AbsoluteX", 3),
       I("ROL", "AbsoluteX", 3), I("RLA", "AbsoluteX", 3),
       I("RTI", "Implied", 1), I("EOR", "IndirectX", 2),
       I("KIL", "Implied", 1), I("SRE", "IndirectX", 2),
       I("NOP", "ZeroPage", 2), I("EOR", "ZeroPage", 2),
       I("LSR", "ZeroPage", 2), I("SRE", "ZeroPage", 2),
       I("PHA", "Implied", 1), I("EOR", "Immediate", 2),
       I("LSR", "Accumulator", 1), I("ALR", "Immediate", 2),
       I("JMP", "Absolute", 3), I("EOR", "Absolute", 3),
       I("LSR", "Absolute", 3), I("SRE", "Absolute", 3),
       I("BVC", "Relative", 2), I("EOR", "IndirectY", 2),
       I("KIL", "Implied", 1), I("SRE", "IndirectY", 2),
       I("NOP", "ZeroPageX", 2), I("EOR", "ZeroPageX", 2),
       I("LSR", "ZeroPageX", 2), I("SRE", "ZeroPageX", 2),
       I("CLI", "Implied", 1), I("EOR", "AbsoluteY", 3),
       I("NOP", "Implied", 1), I("SRE", "AbsoluteY", 3),
       I("NOP", "AbsoluteX", 3), I("EOR", "AbsoluteX", 3),
       I("LSR", "AbsoluteX", 3), I("SRE", "AbsoluteX", 3),
       I("RTS", "Implied", 1), I("ADC", "IndirectX", 2),
       I("KIL", "Implied", 1), I("RRA", "IndirectX", 2),
       I("NOP", "ZeroPage", 2), I("ADC", "ZeroPage", 2),
       I("ROR", "ZeroPage", 2), I("RRA", "ZeroPage", 2),
       I("PLA", "Implied", 1), I("ADC", "Immediate", 2),
       I("ROR", "Accumulator", 1), I("ARR", "Immediate", 2),
       I("JMP", "Indirect", 3), I("ADC", "Absolute", 3),
       I("ROR", "Absolute", 3), I("RRA", "Absolute", 3),
       I("BVS", "Relative", 2), I("ADC", "IndirectY", 2),
       I("KIL", "Implied", 1), I("RRA", "IndirectY", 2),
       I("NOP", "ZeroPageX", 2), I("ADC", "ZeroPageX", 2),
       I("ROR", "ZeroPageX", 2), I("RRA", "ZeroPageX", 2),
       I("SEI", "Implied", 1), I("ADC", "AbsoluteY", 3),
       I("NOP", "Implied", 1), I("RRA", "AbsoluteY", 3),
       I("NOP", "AbsoluteX", 3), I("ADC", "AbsoluteX", 3),
       I("ROR", "AbsoluteX", 3), I("RRA", "AbsoluteX", 3),
       I("NOP", "Immediate", 2), I("STA", "IndirectX", 2),
       I("NOP", "Immediate", 2), I("SAX", "IndirectX", 2),
       I("STY", "ZeroPage", 2), I("STA", "ZeroPage", 2),
       I("STX", "ZeroPage", 2), I("SAX", "ZeroPage", 2),
       I("DEY", "Implied", 1), I("NOP", "Immediate", 2),
       I("TXA", "Implied", 1), I("XAA", "Immediate", 2),
       I("STY", "Absolute", 3), I("STA", "Absolute", 3),
       I("STX", "Absolute", 3), I("SAX", "Absolute", 3),
       I("BCC", "Relative", 2), I("STA", "IndirectY", 2),
       I("KIL", "Implied", 1), I("AHX", "IndirectY", 2),
       I("STY", "ZeroPageX", 2), I("STA", "ZeroPageX", 2),
       I("STX", "ZeroPageY", 2), I("SAX", "ZeroPageY", 2),
       I("TYA", "Implied", 1), I("STA", "AbsoluteY", 3),
       I("TXS", "Implied", 1), I("TAS", "AbsoluteY", 3),
       I("SHY", "AbsoluteX", 3), I("STA", "AbsoluteX", 3),
       I("SHX", "AbsoluteY", 3), I("AHX", "AbsoluteY", 3),
       I("LDY", "Immediate", 2), I("LDA", "IndirectX", 2),
       I("LDX", "Immediate", 2), I("LAX", "IndirectX", 2),
       I("LDY", "ZeroPage", 2), I("LDA", "ZeroPage", 2),
       I("LDX", "ZeroPage", 2), I("LAX", "ZeroPage", 2),
       I("TAY", "Implied", 1), I("LDA", "Immediate", 2),
       I("TAX", "Implied", 1), I("LAX", "Immediate", 2),
       I("LDY", "Absolute", 3), I("LDA", "Absolute", 3),
       I("LDX", "Absolute", 3), I("LAX", "Absolute", 3),
       I("BCS", "Relative", 2), I("LDA", "IndirectY", 2),
       I("KIL", "Implied", 1), I("LAX", "IndirectY", 2),
       I("LDY", "ZeroPageX", 2), I("LDA", "ZeroPageX", 2),
       I("LDX", "ZeroPageY", 2), I("LAX", "ZeroPageY", 2),
       I("CLV", "Implied", 1), I("LDA", "AbsoluteY", 3),
       I("TSX", "Implied", 1), I("LAS", "AbsoluteY", 3),
       I("LDY", "AbsoluteX", 3), I("LDA", "AbsoluteX", 3),
       I("LDX", "AbsoluteY", 3), I("LAX", "AbsoluteY", 3),
       I("CPY", "Immediate", 2), I("CMP", "IndirectX", 2),
       I("NOP", "Immediate", 2), I("DCP", "IndirectX", 2),
       I("CPY", "ZeroPage", 2), I("CMP", "ZeroPage", 2),
       I("DEC", "ZeroPage", 2), I("DCP", "ZeroPage", 2),
       I("INY", "Implied", 1), I("CMP", "Immediate", 2),
       I("DEX", "Implied", 1), I("AXS", "Immediate", 2),
       I("CPY", "Absolute", 3), I("CMP", "Absolute", 3),
       I("DEC", "Absolute", 3), I("DCP", "Absolute", 3),
       I("BNE", "Relative", 2), I("CMP", "IndirectY", 2),
       I("KIL", "Implied", 1), I("DCP", "IndirectY", 2),
       I("NOP", "ZeroPageX", 2), I("CMP", "ZeroPageX", 2),
       I("DEC", "ZeroPageX", 2), I("DCP", "ZeroPageX", 2),
       I("CLD", "Implied", 1), I("CMP", "AbsoluteY", 3),
       I("NOP", "Implied", 1), I("DCP", "AbsoluteY", 3),
       I("NOP", "AbsoluteX", 3), I("CMP", "AbsoluteX", 3),
       I("DEC", "AbsoluteX", 3), I("DCP", "AbsoluteX", 3),
       I("CPX", "Immediate", 2), I("SBC", "IndirectX", 2),
       I("NOP", "Immediate", 2), I("ISC", "IndirectX", 2),
       I("CPX", "ZeroPage", 2), I("SBC", "ZeroPage", 2),
       I("INC", "ZeroPage", 2), I("ISC", "ZeroPage", 2),
       I("INX", "Implied", 1), I("SBC", "Immediate", 2),
       I("NOP", "Implied", 1), I("SBC", "Immediate", 2),
       I("CPX", "Absolute", 3), I("SBC", "Absolute", 3),
       I("INC", "Absolute", 3), I("ISC", "Absolute", 3),
       I("BEQ", "Relative", 2), I("SBC", "IndirectY", 2),
       I("KIL", "Implied", 1), I("ISC", "IndirectY", 2),
       I("NOP", "ZeroPageX", 2), I("SBC", "ZeroPageX", 2),
       I("INC", "ZeroPageX", 2), I("ISC", "ZeroPageX", 2),
       I("SED", "Implied", 1), I("SBC", "AbsoluteY", 3),
       I("NOP", "Implied", 1), I("ISC", "AbsoluteY", 3),
       I("NOP", "AbsoluteX", 3), I("SBC", "AbsoluteX", 3),
       I("INC", "AbsoluteX", 3), I("ISC", "AbsoluteX", 3)
    >>

\* The handler function behind a mnemonic.
handler_of(name) ==
    CASE name = "ADC" -> "adc" [] name = "AND" -> "and" [] name = "ASL" -> "asl"
      [] name = "BCC" -> "bcc" [] name = "BCS" -> "bcs" [] name = "BEQ" -> "beq"
      [] name = "BIT" -> "bit" [] name = "BMI" -> "bmi" [] name = "BNE" -> "bne"
      [] name = "BPL" -> "bpl" [] name = "BRK" -> "brk" [] name = "BVC" -> "bvc"
      [] name = "BVS" -> "bvs" [] name = "CLC" -> "clc" [] name = "CLD" -> "cld"
      [] name = "CLI" -> "cli" [] name = "CLV" -> "clv" [] name = "CMP" -> "cmp"
      [] name = "CPX" -> "cpx" [] name = "CPY" -> "cpy" [] name = "DEC" -> "dec"
      [] name = "DEX" -> "dex" [] name = "DEY" -> "dey" [] name = "EOR" -> "eor"
      [] name = "INC" -> "inc" [] name = "INX" -> "inx" [] name = "INY" -> "iny"
      [] name = "JMP" -> "jmp" [] name = "JSR" -> "jsr" [] name = "LDA" -> "lda"
      [] name = "LDX" -> "ldx" [] name = "LDY" -> "ldy" [] name = "LSR" -> "lsr"
      [] name = "NOP" -> "nop" [] name = "ORA" -> "ora" [] name = "PHA" -> "pha"
      [] name = "PHP" -> "php" [] name = "PLA" -> "pla" [] name = "PLP" -> "plp"
      [] name = "ROL" -> "rol" [] name = "ROR" -> "ror" [] name = "RTI" -> "rti"
      [] name = "RTS" -> "rts" [] name = "SBC" -> "sbc" [] name = "SEC" -> "sec"
      [] name = "SED" -> "sed" [] name = "SEI" -> "sei" [] name = "STA" -> "sta"
      [] name = "STX" -> "stx" [] name = "STY" -> "sty" [] name = "TAX" -> "tax"
      [] name = "TAY" -> "tay" [] name = "TSX" -> "tsx" [] name = "TXA" -> "txa"
      [] name = "TXS" -> "txs" [] name = "TYA" -> "tya" [] name = "KIL" -> "kil"
      [] name = "LAX" -> "lax" [] name = "SAX" -> "sax" [] name = "DCP" -> "dcp"
      [] name = "ISC" -> "isc" [] name = "RLA" -> "rla" [] name = "RRA" -> "rra"
      [] name = "SLO" -> "slo" [] name = "SRE" -> "sre" [] name = "ANC" -> "anc"
      [] name = "ALR" -> "alr" [] name = "ARR" -> "arr" [] name = "XAA" -> "xaa"
      [] name = "AXS" -> "axs" [] name = "AHX" -> "ahx" [] name = "TAS" -> "tas"
      [] name = "SHX" -> "shx" [] name = "SHY" -> "shy" [] name = "LAS" -> "las"

OPCODE_KIL == "KIL"

\* [mutant] a dispatch that stops on the halt opcode only.
dispatch_kil_only(cpu, instruction) ==
    [cpu   |-> execute(handler_of(instruction.name), cpu, instruction.addressing_mode),
     state |-> IF instruction.name = OPCODE_KIL THEN "Stopped" ELSE "Running"]

\* execute_instruction: the result and the processor after one step.
dispatch(cpu, instruction) ==
    [cpu   |-> execute(handler_of(instruction.name), cpu, instruction.addressing_mode),
     state |-> IF instruction.name = OPCODE_KIL \/ instruction.name = "BRK"
               THEN "Stopped" ELSE "Running"]

decode(cpu, opcode) ==
    IF opcode + 1 \notin DOMAIN INSTRUCTIONS
    THEN [cpu |-> cpu, state |-> "Error"]
    ELSE dispatch(cpu, INSTRUCTIONS[opcode + 1])

execute_instruction(cpu) ==
    IF cpu.registers.pc >= MEMORY_SIZE
    THEN [cpu |-> cpu, state |-> "Error"]
    ELSE decode(cpu, Ram_read(cpu.memory, cpu.registers.pc))

\* =========================================================== the machine
\* registers, memory       the two fields of Cpu6502
\* overflow_checks         the build profile: unchecked `+` panics or wraps
\* panicked                a call has panicked (the process is gone)
\* last                    the last operation, the processor before it, and
\*                         what it returned
\* steps                   how many calls followed the arrangement
\* frame                   the subroutine call in progress (JSR .. RTS)
VARIABLES registers, memory, overflow_checks, panicked, last, steps, frame

vars == <<registers, memory, overflow_checks, panicked, last, steps, frame>>

Cpu == [registers |-> registers, memory |-> memory, trap |-> FALSE]

NoFrame == [kind |-> "none", p |-> 0, sp |-> 0, value |-> 0, depth |-> 0, peak |-> 0]

Record(op, name, mode, value, state) ==
    [op |-> op, name |-> name, mode |-> mode, registers |-> registers,
     memory |-> memory, value |-> value, state |-> state]

\* The processor after Cpu6502::new(Ram::new()), in either build profile.
Init ==
    /\ registers = Registers_new
    /\ memory = Ram_new
    /\ overflow_checks \in BOOLEAN
    /\ panicked = FALSE
    /\ last = [op |-> "new", name |-> "", mode |-> "", registers |-> Registers_new,
               memory |-> Ram_new, value |-> -1, state |-> "None"]
    /\ steps = 0
    /\ frame = NoFrame

\* A call returns `after`: it panicked if an unchecked sum overflowed in a
\* build with overflow checks, and otherwise its wrapped values stand.
Commit(after, op, name, mode, value, state) ==
    /\ panicked' = (after.trap /\ overflow_checks)
    /\ registers' = IF panicked' THEN registers ELSE after.registers
    /\ memory' = IF panicked' THEN memory ELSE after.memory
    /\ last' = Record(op, name, mode,
                      IF panicked' THEN -1 ELSE value,
                      IF panicked' THEN "Panic" ELSE state)
    /\ UNCHANGED overflow_checks

\* What a harness does before a call (the fields are public): it sets the
\* registers and stores bytes, as get_cpu() and the tests of cpu/tests do.
Arranged(regs, ram) ==
    /\ last.op = "new"
    /\ registers' = regs
    /\ memory' = ram
    /\ last' = Record("arrange", "", "", -1, "None")
    /\ UNCHANGED <<overflow_checks, panicked, steps, frame>>

\* A direct call of a handler, `adc(&mut cpu, AddressingMode::Immediate)`.
Invoke(name, mode) ==
    /\ ~panicked
    /\ last.op \in {"arrange", "call"}
    /\ Commit(execute(name, Cpu, mode), "call", name, mode, -1, "None")

Call(name, mode) ==
    /\ steps < MaxCalls
    /\ steps' = steps + 1
    /\ Invoke(name, mode)
    /\ UNCHANGED frame

\* Byte values next to 0x00, 0x80 and 0xFF.
ByteSample ==
    (0..Edge) \cup ((128 - Edge)..(127 + Edge)) \cup ((255 - Edge)..255)

StatusSample == {0, Carry, 255 - Carry, 255}

PcSample == {0, 512, 65534}

\* get_cpu(): new, reset() on an empty memory; then pc as the test sets it.
get_cpu(pc) == [a |-> 0, x |-> 0, y |-> 0, sp |-> 255, pc |-> pc, status |-> 0]

ZP_CELL == 32

\* ------------------------------------------------- arithmetic handlers
\* The operand m is the byte after the opcode (Immediate), or the byte of the
\* zero-page cell that the byte after the opcode names (ZeroPage).
ArrangeAlu ==
    \E a \in ByteSample, m \in ByteSample, status \in StatusSample,
       pc \in PcSample, layout \in {"Immediate", "ZeroPage"} :
        Arranged([get_cpu(pc) EXCEPT !.a = a, !.status = status],
                 IF layout = "Immediate"
                 THEN Ram_write(Ram_new, wrap16(pc + 1), m)
                 ELSE Ram_write(Ram_write(Ram_new, wrap16(pc + 1), ZP_CELL), ZP_CELL, m))

CallAlu ==
    \E name \in {"adc", "sbc", "cmp"}, mode \in {"Immediate", "ZeroPage"} :
        Call(name, mode)

NextAlu == ArrangeAlu \/ CallAlu

SpecAlu == Init /\ [][NextAlu]_vars

\* What the claims read: a handler has returned (it did not panic), the
\* processor before it, and a flag of a status byte by plain arithmetic.
Returned(name) == last.op = "call" /\ last.name = name /\ ~panicked

Bit(byte, flag) == (byte \div flag) % 2
Signed(byte) == IF byte >= 128 THEN byte - 256 ELSE byte

\* The operand of an arithmetic handler called with Immediate or ZeroPage,
\* read from the memory before the call.
AluOperand ==
    IF last.mode = "Immediate"
    THEN Ram_read(last.memory, wrap16(last.registers.pc + 1))
    ELSE Ram_read(last.memory, Ram_read(last.memory, wrap16(last.registers.pc + 1)))

AluSum == last.registers.a + AluOperand + Bit(last.registers.status, Carry)
AluDifference == last.registers.a - AluOperand - (1 - Bit(last.registers.status, Carry))

\* C2: after adc the accumulator is (A + M + C) mod 256, Zero is set exactly
\* when that is 0 and Negative exactly when its bit 7 is 1.
C2_AdcResult ==
    Returned("adc") =>
        /\ registers.a = AluSum % 256
        /\ (Bit(registers.status, Zero) = 1) = (AluSum % 256 = 0)
        /\ (Bit(registers.status, Negative) = 1) = (AluSum % 256 >= 128)

\* adc of 0xFF + 0x01 + carry has wrapped to 0x01.
C2_Witness ==
    /\ Returned("adc")
    /\ last.registers.a = 255 /\ AluOperand = 1 /\ Bit(last.registers.status, Carry) = 1
    /\ registers.a = 1

\* C3: after adc Carry is set exactly when A + M + C exceeds 255.
C3_AdcCarry ==
    Returned("adc") => ((Bit(registers.status, Carry) = 1) = (AluSum > 255))

C5_SbcBorrow ==
    Returned("sbc") =>
        /\ registers.a = (AluDifference + 512) % 256
        /\ (Bit(registers.status, Carry) = 1) = (AluDifference >= 0)

\* C6: after cmp Carry is A >= M, Zero is A = M, Negative is bit 7 of
\* (A - M) mod 256; a, x, y, sp, Overflow and memory are as before.
C6_Cmp ==
    Returned("cmp") =>
        /\ (Bit(registers.status, Carry) = 1) = (last.registers.a >= AluOperand)
        /\ (Bit(registers.status, Zero) = 1) = (last.registers.a = AluOperand)
        /\ Bit(registers.status, Negative)
            = Bit((last.registers.a - AluOperand + 256) % 256, 128)
        /\ registers.a = last.registers.a
        /\ registers.x = last.registers.x
        /\ registers.y = last.registers.y
        /\ registers.sp = last.registers.sp
        /\ Bit(registers.status, Overflow) = Bit(last.registers.status, Overflow)
        /\ memory = last.memory

\* cmp of 0x00 with 0x01: a borrow, Carry clear, Negative set, a still 0.
C6_Witness ==
    /\ Returned("cmp")
    /\ last.registers.a = 0 /\ AluOperand = 1
    /\ Bit(registers.status, Carry) = 0 /\ Bit(registers.status, Negative) = 1

\* ------------------------------------------------------------- branches
Branches == {"bcc", "bcs", "beq", "bne", "bmi", "bpl", "bvc", "bvs"}

BranchPc == {0, 512, 65534, 65535}

\* Every combination of Carry, Zero, Overflow and Negative, with the four
\* other flags all clear or all set.
BranchStatus ==
    {c + z + v + n + o : c \in {0, Carry}, z \in {0, Zero}, v \in {0, Overflow},
                         n \in {0, Negative},
                         o \in {0, Interrupt + Decimal + Break + Unused}}

\* A branch opcode at pc with the operand byte d after it.
ArrangeBranch ==
    \E pc \in BranchPc, d \in ByteSample, status \in BranchStatus, a \in {0, 170} :
        Arranged([get_cpu(pc) EXCEPT !.a = a, !.x = 85, !.y = 51, !.status = status],
                 Ram_write(Ram_new, wrap16(pc + 1), d))

CallBranch == \E name \in Branches : Call(name, "Relative")

NextBranch == ArrangeBranch \/ CallBranch

SpecBranch == Init /\ [][NextBranch]_vars

\* The operand byte of the branch and the two places it can continue at.
BranchOperand == Ram_read(last.memory, wrap16(last.registers.pc + 1))
BranchFallThrough == wrap16(last.registers.pc + 2)
BranchTarget == (last.registers.pc + 2 + Signed(BranchOperand) + 65536) % 65536

\* The condition each branch is documented to test, on the status before.
BranchCondition(name) ==
    CASE name = "bcc" -> Bit(last.registers.status, Carry) = 0
      [] name = "bcs" -> Bit(last.registers.status, Carry) = 1
      [] name = "beq" -> Bit(last.registers.status, Zero) = 1
      [] name = "bne" -> Bit(last.registers.status, Zero) = 0
      [] name = "bmi" -> Bit(last.registers.status, Negative) = 1
      [] name = "bpl" -> Bit(last.registers.status, Negative) = 0
      [] name = "bvc" -> Bit(last.registers.status, Overflow) = 0
      [] name = "bvs" -> Bit(last.registers.status, Overflow) = 1

BranchReturned == last.op = "call" /\ last.name \in Branches /\ ~panicked

\* C7: a branch whose condition holds leaves pc at the relative target,
\* (p + 2 + d as a signed byte) mod 65536.
C7_BranchTarget ==
    (BranchReturned /\ BranchCondition(last.name)) => registers.pc = BranchTarget

\* C8: a branch whose condition does not hold leaves pc at p + 2; one whose
\* condition holds does not fall through (when the operand byte makes the two
\* outcomes differ); and no branch changes a, x, y, sp, status or memory.
C8_BranchCondition ==
    BranchReturned =>
        /\ ~BranchCondition(last.name) => registers.pc = BranchFallThrough
        /\ ( /\ BranchCondition(last.name)
             /\ BranchOperand \notin {0, BranchFallThrough} )
                => registers.pc # BranchFallThrough
        /\ registers.a = last.registers.a
        /\ registers.x = last.registers.x
        /\ registers.y = last.registers.y
        /\ registers.sp = last.registers.sp
        /\ registers.status = last.registers.status
        /\ memory = last.memory

\* bcc with Carry set at 0xFFFE: not taken, pc has wrapped to 0x0000.
C8_Witness ==
    /\ Returned("bcc")
    /\ Bit(last.registers.status, Carry) = 1
    /\ last.registers.pc = 65534
    /\ registers.pc = 0

\* ----------------------------------------------------------- word stack
WordSample == {256 * high + low : high \in ByteSample, low \in ByteSample}

\* A stack pointer, and stale bytes in the two cells a word push will use
\* and in the cell a pop will read.
ArrangeStack ==
    \E sp \in ByteSample, stale \in {0, 238} :
        Arranged([get_cpu(512) EXCEPT !.sp = sp],
                 Ram_write(Ram_write(Ram_write(Ram_new, STACK_SIZE + sp, stale),
                                     STACK_SIZE + wrap8(sp + 255), stale),
                           STACK_SIZE + wrap8(sp + 1), stale))

\* cpu.push_word_stack(data)
PushWordStack ==
    \E data \in WordSample :
        /\ ~panicked
        /\ last.op = "arrange"
        /\ Commit(push_word_stack(Cpu, data), "push_word_stack", "", "", -1, "None")
        /\ frame' = [NoFrame EXCEPT !.kind = "push_word", !.sp = registers.sp,
                                    !.value = data]
        /\ UNCHANGED steps

\* cpu.pop_word_stack(), right after the push.
PopWordStack ==
    /\ ~panicked
    /\ last.op = "push_word_stack"
    /\ Commit(pop_word_stack(Cpu).cpu, "pop_word_stack", "", "",
              pop_word_stack(Cpu).value, "None")
    /\ UNCHANGED <<steps, frame>>

\* cpu.push_stack(data)
PushStack ==
    \E data \in ByteSample :
        /\ ~panicked
        /\ last.op = "arrange"
        /\ Commit(push_stack(Cpu, data), "push_stack", "", "", data, "None")
        /\ frame' = [NoFrame EXCEPT !.kind = "push", !.sp = registers.sp,
                                    !.value = data]
        /\ UNCHANGED steps

\* cpu.pop_stack(), on the arranged stack or right after a push.
PopStack ==
    /\ ~panicked
    /\ last.op \in {"arrange", "push_stack"}
    /\ Commit(pop_stack(Cpu).cpu, "pop_stack", "", "", pop_stack(Cpu).value, "None")
    /\ UNCHANGED <<steps, frame>>

NextStack ==
    ArrangeStack \/ PushWordStack \/ PopWordStack \/ PushStack \/ PopStack

SpecStack == Init /\ [][NextStack]_vars

\* C10: push_word_stack(v) followed by pop_word_stack() returns v and leaves
\* the stack pointer at its value s before the push, for every s, the
\* wrapping ones included.
C10_WordRoundTrip ==
    (last.op = "pop_word_stack" /\ ~panicked) =>
        /\ last.value = frame.value
        /\ registers.sp = frame.sp

\* 0x01FF pushed at sp = 0x00: the pointer wraps to 0xFF and 0xFE and back.
C10_Witness ==
    /\ last.op = "pop_word_stack"
    /\ frame.sp = 0
    /\ frame.value = 511
    /\ last.registers.sp = 254
    /\ last.value = 511
    /\ registers.sp = 0

\* ------------------------------------------------------ call and return
CallPc == {0, 512, 65532, 65533, 65534}

CallTarget == {768, 65535}

\* A JSR at pc whose operand bytes hold the target, low byte first.
ArrangeCall ==
    \E pc \in CallPc, target \in CallTarget, sp \in {0, 1, 2, 255}, a \in {0, 129} :
        Arranged([get_cpu(pc) EXCEPT !.sp = sp, !.a = a],
                 Ram_write(Ram_write(Ram_new, wrap16(pc + 1), target % 256),
                           wrap16(pc + 2), target \div 256))

Jsr ==
    /\ last.op = "arrange"
    /\ Invoke("jsr", "Absolute")
    /\ frame' = [NoFrame EXCEPT !.kind = "jsr", !.p = registers.pc,
                                !.sp = registers.sp,
                                !.value = Ram_read(memory, wrap16(registers.pc + 1))
                                    + 256 * Ram_read(memory, wrap16(registers.pc + 2))]
    /\ UNCHANGED steps

\* Between the call and the return: pushes, each matched by a pop.
Pha ==
    /\ frame.kind = "jsr"
    /\ frame.peak < MaxDepth
    /\ Invoke("pha", "Implied")
    /\ frame' = [frame EXCEPT !.depth = @ + 1, !.peak = @ + 1]
    /\ UNCHANGED steps

Pla ==
    /\ frame.kind = "jsr"
    /\ frame.depth > 0
    /\ Invoke("pla", "Implied")
    /\ frame' = [frame EXCEPT !.depth = @ - 1]
    /\ UNCHANGED steps

Rts ==
    /\ frame.kind = "jsr"
    /\ frame.depth = 0
    /\ Invoke("rts", "Implied")
    /\ frame' = [frame EXCEPT !.kind = "rts"]
    /\ UNCHANGED steps

NextCall == ArrangeCall \/ Jsr \/ Pha \/ Pla \/ Rts

SpecCall == Init /\ [][NextCall]_vars

\* C9: a JSR at p with target t pushes the word p + 2, high byte first, and
\* sets pc = t; the RTS that follows, every push in between matched by a pop,
\* sets pc = p + 3 and leaves sp as it was before the JSR.
C9_JsrRts ==
    /\ (Returned("jsr") /\ frame.kind = "jsr") =>
            /\ Ram_read(memory, STACK_SIZE + frame.sp) = wrap16(frame.p + 2) \div 256
            /\ Ram_read(memory, STACK_SIZE + wrap8(frame.sp + 255))
                    = wrap16(frame.p + 2) % 256
            /\ registers.sp = wrap8(frame.sp + 254)
            /\ registers.pc = frame.value
    /\ (Returned("rts") /\ frame.kind = "rts") =>
            /\ registers.pc = wrap16(frame.p + 3)
            /\ registers.sp = frame.sp

\* JSR at 0x0200 with sp = 0x00, a PHA and a PLA, then RTS to 0x0203.
C9_Witness ==
    /\ Returned("rts")
    /\ frame.kind = "rts"
    /\ frame.peak > 0
    /\ frame.p = 512
    /\ frame.sp = 0
    /\ registers.pc = 515
    /\ registers.sp = 0

\* ------------------------------------------------------------ the engine
ProgramPc == {512, 65531, 65534, 65535}

\* The two bytes after the opcode: zero-page 0x10 / absolute 0x0010, and
\* zero-page 0xFF / absolute 0x02FF.
OperandSample == {<<16, 0>>, <<255, 2>>}

\* One instruction in memory at pc: any opcode and two operand bytes.
ArrangeProgram ==
    \E opcode \in Byte, pc \in ProgramPc, operand \in OperandSample,
       status \in {0, 255} :
        Arranged([get_cpu(pc) EXCEPT !.a = 1, !.x = 1, !.y = 1, !.status = status],
                 Ram_write(Ram_write(Ram_write(Ram_new, pc, opcode),
                                     wrap16(pc + 1), operand[1]),
                           wrap16(pc + 2), operand[2]))

\* The descriptor of the opcode at pc.
Decoded == INSTRUCTIONS[Ram_read(memory, registers.pc) + 1]

\* cpu.execute_instruction()
Step ==
    /\ ~panicked
    /\ last.op \in {"arrange", "step", "reset"}
    /\ steps < MaxSteps
    /\ steps' = steps + 1
    /\ Commit(execute_instruction(Cpu).cpu, "step", Decoded.name,
              Decoded.addressing_mode, -1, execute_instruction(Cpu).state)
    /\ UNCHANGED frame

\* cpu.reset()
Reset ==
    /\ ~panicked
    /\ last.op \in {"arrange", "step", "reset"}
    /\ steps < MaxSteps
    /\ steps' = steps + 1
    /\ Commit(reset(Cpu), "reset", "", "", -1, "None")
    /\ UNCHANGED frame

Next == ArrangeProgram \/ Step \/ Reset

Spec == Init /\ [][Next]_vars

Stepped == last.op = "step" /\ ~panicked

\* The documented length of an instruction, by addressing mode.
DocumentedLength(mode) ==
    CASE mode \in {"Implied", "Accumulator"} -> 1
      [] mode \in {"Absolute", "AbsoluteX", "AbsoluteY", "Indirect"} -> 3
      [] OTHER -> 2

\* The step ran a handler that redirects pc: a jump, call, return or break,
\* or a branch whose condition held.
ControlFlow ==
    \/ last.name \in {"JMP", "JSR", "RTS", "RTI", "BRK"}
    \/ /\ handler_of(last.name) \in Branches
       /\ BranchCondition(handler_of(last.name))

\* C1: after a step that dispatched a handler other than a taken branch,
\* JMP, JSR, RTS, RTI or BRK, pc is the opcode's address plus the documented
\* instruction length, mod 65536.
C1_PcAdvance ==
    (Stepped /\ last.state # "Error" /\ ~ControlFlow) =>
        registers.pc = wrap16(last.registers.pc + DocumentedLength(last.mode))

\* The page the stack lives in, 0x0100..0x01FF.
StackPage == STACK_SIZE..(STACK_SIZE + 255)

\* Everything but sp and memory is as before the last operation.
SameButSp ==
    /\ registers.a = last.registers.a
    /\ registers.x = last.registers.x
    /\ registers.y = last.registers.y
    /\ registers.pc = last.registers.pc
    /\ registers.status = last.registers.status

\* C11: push_stack(b) at stack pointer s stores b at 0x0100 + s and leaves
\* sp = (s - 1) mod 256; pop_stack at s leaves sp = (s + 1) mod 256 and
\* returns the byte at 0x0100 + sp; the cell used is inside 0x0100..0x01FF and
\* no other memory byte changes.
C11_PushPop ==
    /\ (last.op = "push_stack" /\ ~panicked) =>
            /\ STACK_SIZE + last.registers.sp \in StackPage
            /\ memory = Ram_write(last.memory, STACK_SIZE + last.registers.sp, last.value)
            /\ registers.sp = (last.registers.sp + 255) % 256
            /\ SameButSp
    /\ (last.op = "pop_stack" /\ ~panicked) =>
            /\ registers.sp = (last.registers.sp + 1) % 256
            /\ STACK_SIZE + registers.sp \in StackPage
            /\ last.value = Ram_read(last.memory, STACK_SIZE + registers.sp)
            /\ memory = last.memory
            /\ SameButSp

\* 0xFF pushed at sp = 0x00 lands at 0x0100 and the pointer wraps to 0xFF;
\* the pop after it wraps back and returns the byte.
C11_Witness ==
    /\ last.op = "pop_stack"
    /\ frame.kind = "push" /\ frame.sp = 0 /\ frame.value = 255
    /\ last.registers.sp = 255
    /\ registers.sp = 0
    /\ last.value = 255

\* ---------------------------------------------------------------- break
BrkPc == {0, 4096, 65533, 65534, 65535}

BrkStatus == {0, Break, 255 - Break, 255}

\* The interrupt vector's two bytes, low byte first.
VectorSample == {<<16, 16>>, <<0, 0>>, <<255, 1>>}

\* As test_brk arranges: pc, status, the vector at 0xFFFE; and a stack pointer.
ArrangeBrk ==
    \E pc \in BrkPc, status \in BrkStatus, sp \in {0, 1, 2, 255},
       vector \in VectorSample :
        Arranged([get_cpu(pc) EXCEPT !.sp = sp, !.status = status],
                 Ram_write(Ram_write(Ram_new, IRQ_VECTOR, vector[1]),
                           IRQ_VECTOR + 1, vector[2]))

CallBrk == Call("brk", "Implied")

NextBrk == ArrangeBrk \/ CallBrk

SpecBrk == Init /\ [][NextBrk]_vars

\* A status byte with one flag set.
WithFlag(status, flag) == status + (1 - Bit(status, flag)) * flag

\* C12: brk at pc = p, status st, stack pointer s stores the high byte of p at
\* 0x0100 + s, the low byte at 0x0100 + (s - 1) mod 256 and st with Break set
\* at 0x0100 + (s - 2) mod 256, leaves sp = (s - 3) mod 256, sets Interrupt
\* and sets pc to the word at 0xFFFE.
C12_Brk ==
    Returned("brk") =>
        /\ Ram_read(memory, STACK_SIZE + last.registers.sp) = last.registers.pc \div 256
        /\ Ram_read(memory, STACK_SIZE + ((last.registers.sp + 255) % 256))
                = last.registers.pc % 256
        /\ Ram_read(memory, STACK_SIZE + ((last.registers.sp + 254) % 256))
                = WithFlag(last.registers.status, Break)
        /\ registers.sp = (last.registers.sp + 253) % 256
        /\ Bit(registers.status, Interrupt) = 1
        /\ registers.pc = Ram_read(last.memory, 65534) + 256 * Ram_read(last.memory, 65535)

\* brk at 0x1000 with sp = 0x01 and status 0: the three pushes wrap to 0xFE.
C12_Witness ==
    /\ Returned("brk")
    /\ last.registers.pc = 4096 /\ last.registers.sp = 1 /\ last.registers.status = 0
    /\ registers.sp = 254
    /\ Ram_read(memory, STACK_SIZE + 255) = Break
    /\ registers.pc = 4112

\* C13: after brk the Break flag of the status register is set, whatever the
\* status was before.
C13_BreakFlag == Returned("brk") => Bit(registers.status, Break) = 1

\* C14: Stopped and Error are terminal: a step made after a step that
\* returned Stopped or Error, with no reset() in between, does not return
\* Running and changes neither the registers nor memory.
C14_Terminal ==
    [][ ( /\ last.op = "step" /\ last.state \in {"Stopped", "Error"}
          /\ last'.op = "step" /\ ~panicked' )
        => ( /\ last'.state \in {"Stopped", "Error"}
             /\ registers' = registers
             /\ memory' = memory ) ]_vars

\* The mnemonics C15 lists.
ListedMnemonics ==
    {"LAX", "SAX", "DCP", "RLA", "RRA", "SLO", "SRE", "ANC", "ALR", "ARR", "XAA",
     "AXS", "AHX", "TAS", "SHX", "SHY", "LAS", "ASR", "CPX", "CPY", "INY", "DEX",
     "DEY"}

\* C15: no handler is a silent no-op: a step of one of the listed
\* instructions that returns Running has moved pc by the documented length,
\* so the processor is not in the state it was in before the step.
C15_NoSilentNoOp ==
    (Stepped /\ last.state = "Running" /\ last.name \in ListedMnemonics) =>
        /\ registers.pc = wrap16(last.registers.pc + DocumentedLength(last.mode))
        /\ <<registers, memory>> # <<last.registers, last.memory>>

\* C16: every step completes and returns Running, Stopped or Error: no step
\* traps, whatever the registers and memory are.
C16_NoTrap ==
    last.op = "step" =>
        /\ ~panicked
        /\ last.state \in {"Running", "Stopped", "Error"}

\* ---------------------------------------------------------------- reset
ResetByteSample == ByteSample \cup {2}

\* Registers in any state, a program byte, and the reset vector's two bytes.
ArrangeReset ==
    \E low \in ResetByteSample, high \in ResetByteSample, used \in BOOLEAN :
        Arranged(IF used
                 THEN [a |-> 129, x |-> 2, y |-> 255, sp |-> 17, pc |-> 4660,
                       status |-> 195]
                 ELSE Registers_new,
                 Ram_write(Ram_write(Ram_write(Ram_new, 512, 234),
                                     RESET_ADDRESS_LOW, low),
                           RESET_ADDRESS_HIGH, high))

NextReset == ArrangeReset \/ Reset

SpecReset == Init /\ [][NextReset]_vars

\* C17: reset() leaves a, x, y and status 0, sp 0xFF, and pc the word at
\* 0xFFFC, low byte first, whatever the registers and memory were.
C17_Reset ==
    (last.op = "reset" /\ ~panicked) =>
        /\ registers.a = 0 /\ registers.x = 0 /\ registers.y = 0
        /\ registers.status = 0
        /\ registers.sp = 255
        /\ registers.pc = Ram_read(last.memory, 65532) + 256 * Ram_read(last.memory, 65533)

\* The vector bytes 0x00, 0x02 give pc = 0x0200, from registers in use.
C17_Witness ==
    /\ last.op = "reset"
    /\ last.registers.a = 129 /\ last.registers.pc = 4660
    /\ Ram_read(last.memory, 65532) = 0 /\ Ram_read(last.memory, 65533) = 2
    /\ registers.pc = 512

\* ---------------------------------------------------------------- flags
Flags == {Carry, Zero, Interrupt, Decimal, Break, Unused, Overflow, Negative}

\* Any status byte.
ArrangeFlag == \E status \in Byte : Arranged([get_cpu(0) EXCEPT !.status = status], Ram_new)

\* cpu.set_flag(flag, value); last.value is the flag, last.mode the boolean.
SetFlag ==
    \E flag \in Flags, value \in BOOLEAN :
        /\ ~panicked
        /\ last.op = "arrange"
        /\ Commit(set_flag(Cpu, flag, value), "set_flag", "",
                  IF value THEN "true" ELSE "false", flag, "None")
        /\ UNCHANGED <<steps, frame>>

NextFlag == ArrangeFlag \/ SetFlag

SpecFlag == Init /\ [][NextFlag]_vars

\* C18: set_flag(f, v) makes get_flag(f) equal to v and leaves the seven
\* other flags as they were; the eight flags are eight distinct single bits.
C18_SetFlag ==
    /\ \A f \in Flags : f \in {1, 2, 4, 8, 16, 32, 64, 128}
    /\ Cardinality(Flags) = 8
    /\ (last.op = "set_flag" /\ ~panicked) =>
            /\ get_flag(Cpu, last.value) = (last.mode = "true")
            /\ Bit(registers.status, last.value) = (IF last.mode = "true" THEN 1 ELSE 0)
            /\ \A g \in Flags \ {last.value} :
                    Bit(registers.status, g) = Bit(last.registers.status, g)

\* Overflow cleared in 0xFF: 0xBF is left, every other flag still set.
C18_Witness ==
    /\ last.op = "set_flag"
    /\ last.value = Overflow /\ last.mode = "false"
    /\ last.registers.status = 255
    /\ registers.status = 191

\* ------------------------------------------------------ addressing modes
ModePc == {512, 65533}

\* The high byte of a two-byte operand: page 0, page 0x10 or page 0xFF.
ModePage == {0, 16, 255}

\* The cells an operand can name, each with the cell after it, and the first
\* cell of each page; every one holds a byte of its own.
PatternCells ==
    {(256 * page + low + next) % 65536 :
        page \in ModePage, low \in ByteSample, next \in {0, 1}}
        \cup {256 * page : page \in ModePage}

\* The zero-page word at 0x80 is 0xFFFF, the top of the address space.
Pattern(k) == IF k \in {128, 129} THEN 255 ELSE ((k * 37 + 11) % 255) + 1

\* An instruction's two operand bytes at pc + 1 and pc + 2, index registers,
\* and the patterned cells.
ArrangeMode ==
    \E pc \in ModePc, low \in ByteSample, page \in ModePage,
       x \in ByteSample, y \in {0, 1, 255} :
        Arranged([get_cpu(pc) EXCEPT !.a = 66, !.x = x, !.y = y],
                 Ram_write(Ram_write([k \in PatternCells |-> Pattern(k)],
                                     wrap16(pc + 1), low),
                           wrap16(pc + 2), page))

\* mode.get_address(cpu); last.value is the address it returns.
GetAddress ==
    \E mode \in AddressingModes :
        /\ ~panicked
        /\ last.op = "arrange"
        /\ Commit(get_address(Cpu, mode).cpu, "get_address", "", mode,
                  get_address(Cpu, mode).value, "None")
        /\ UNCHANGED <<steps, frame>>

CallJmp == \E mode \in {"Absolute", "Indirect"} : Call("jmp", mode)

NextMode == ArrangeMode \/ GetAddress \/ CallJmp

SpecMode == Init /\ [][NextMode]_vars

\* The operand bytes of the instruction the last operation was applied to.
OperandLow == Ram_read(last.memory, wrap16(last.registers.pc + 1))
OperandHigh == Ram_read(last.memory, wrap16(last.registers.pc + 2))
OperandWord == OperandLow + 256 * OperandHigh

\* The word an indirect jump takes from pointer q on the 6502: the high byte
\* comes from the start of q's page when q is the page's last byte.
IndirectTarget ==
    Ram_read(last.memory, OperandWord)
        + 256 * Ram_read(last.memory,
                         IF OperandWord % 256 = 255
                         THEN OperandWord - 255 ELSE OperandWord + 1)

Resolved(modes) == last.op = "get_address" /\ last.mode \in modes

\* C19: Indirect with pointer q resolves to mem[q] | mem[q + 1] << 8, the high
\* byte coming from q AND 0xFF00 when q's low byte is 0xFF, and JMP Indirect
\* sets pc to that address.
C19_Indirect ==
    /\ (Resolved({"Indirect"}) /\ ~panicked) => last.value = IndirectTarget
    /\ (Returned("jmp") /\ last.mode = "Indirect") =>
            /\ registers.pc = IndirectTarget
            /\ registers.a = last.registers.a
            /\ registers.x = last.registers.x
            /\ registers.y = last.registers.y
            /\ registers.sp = last.registers.sp
            /\ registers.status = last.registers.status
            /\ memory = last.memory

\* JMP (0x10FF): the high byte is the one at 0x1000, not the one at 0x1100.
C19_Witness ==
    /\ Returned("jmp") /\ last.mode = "Indirect"
    /\ OperandWord = 4351
    /\ Ram_read(last.memory, 4096) # Ram_read(last.memory, 4352)
    /\ registers.pc = Ram_read(last.memory, 4351) + 256 * Ram_read(last.memory, 4096)

\* C20: ZeroPageX and ZeroPageY resolve to (operand byte + index) mod 256 for
\* every operand byte and index, an address of page 0: 0xFF with an index of
\* 0x01 resolves to 0x0000.
C20_ZeroPageIndexed ==
    /\ Resolved({"ZeroPageX"}) =>
            (~panicked /\ last.value = (OperandLow + last.registers.x) % 256)
    /\ Resolved({"ZeroPageY"}) =>
            (~panicked /\ last.value = (OperandLow + last.registers.y) % 256)

\* The little-endian word at a zero-page address z: mem[z] | mem[z + 1] << 8.
WordAt(z) == Ram_read(last.memory, z) + 256 * Ram_read(last.memory, z + 1)

\* C21: AbsoluteX and AbsoluteY resolve to (w + index) mod 65536, IndirectX to
\* the word at zero-page address (b + X) mod 256, IndirectY to (the word at
\* zero-page address b, plus Y) mod 65536, for every operand and index.
C21_Indexed ==
    /\ Resolved({"AbsoluteX"}) =>
            (~panicked /\ last.value = (OperandWord + last.registers.x) % 65536)
    /\ Resolved({"AbsoluteY"}) =>
            (~panicked /\ last.value = (OperandWord + last.registers.y) % 65536)
    /\ Resolved({"IndirectX"}) =>
            (~panicked /\ last.value = WordAt((OperandLow + last.registers.x) % 256))
    /\ Resolved({"IndirectY"}) =>
            (~panicked /\ last.value = (WordAt(OperandLow) + last.registers.y) % 65536)

\* The operand bytes a mode consumes from the instruction stream.
OperandBytes(mode) ==
    CASE mode \in {"Implied", "Accumulator"} -> 0
      [] mode \in {"Absolute", "AbsoluteX", "AbsoluteY", "Indirect"} -> 2
      [] OTHER -> 1

\* C22: get_address advances pc by exactly the operand bytes the mode
\* consumes; the pointer dereferences of Indirect, IndirectX and IndirectY
\* do not advance it.
C22_OperandBytes ==
    (Resolved(AddressingModes) /\ ~panicked) =>
        registers.pc = wrap16(last.registers.pc + OperandBytes(last.mode))

\* ------------------------------------------------------ shift and rotate
Shifts == {"asl", "lsr", "rol", "ror"}

\* The cell a memory operand lives in: zero page 0x20, 0x1234, or 0x0201, the
\* byte after the opcode (an immediate operand).
CellSample == {ZP_CELL, 4660, 513}

\* An instruction at 0x0200 whose operand bytes name the cell, the operand m
\* written to the cell last, and an accumulator.
ArrangeOperand ==
    \E a \in ByteSample, m \in ByteSample, status \in StatusSample,
       cell \in CellSample :
        Arranged([get_cpu(512) EXCEPT !.a = a, !.x = 85, !.y = 51, !.status = status],
                 Ram_write(Ram_write(Ram_write(Ram_new, 513, cell % 256),
                                     514, cell \div 256),
                           cell, m))

CallShift ==
    \E name \in Shifts, mode \in {"ZeroPage", "Absolute", "Accumulator"} :
        Call(name, mode)

NextShift == ArrangeOperand \/ CallShift

SpecShift == Init /\ [][NextShift]_vars

\* The effective address of a ZeroPage or Absolute operand, and the operand.
EffectiveAddress == IF last.mode = "ZeroPage" THEN OperandLow ELSE OperandWord
MemoryOperand == Ram_read(last.memory, EffectiveAddress)

OldCarry == Bit(last.registers.status, Carry)

\* What each shift makes of operand v with old Carry c, and the bit of v that
\* becomes the new Carry.
Shifted(name, v, c) ==
    CASE name = "asl" -> (2 * v) % 256
      [] name = "lsr" -> v \div 2
      [] name = "rol" -> ((2 * v) % 256) + c
      [] name = "ror" -> (v \div 2) + 128 * c

ShiftedOut(name, v) == IF name \in {"asl", "rol"} THEN v \div 128 ELSE v % 2

\* Zero and Negative are those of a result byte.
ZeroNegativeOf(result) ==
    /\ (Bit(registers.status, Zero) = 1) = (result = 0)
    /\ (Bit(registers.status, Negative) = 1) = (result >= 128)

\* C23: on a memory operand v with old Carry c, ASL, LSR, ROL and ROR store
\* the shifted or rotated byte at the effective address, set Carry to the bit
\* shifted out and Zero and Negative from the stored byte, and leave the
\* accumulator unchanged.
C23_ShiftMemory ==
    (last.op = "call" /\ last.name \in Shifts /\ ~panicked
        /\ last.mode \in {"ZeroPage", "Absolute"}) =>
        /\ memory = Ram_write(last.memory, EffectiveAddress,
                              Shifted(last.name, MemoryOperand, OldCarry))
        /\ Bit(registers.status, Carry) = ShiftedOut(last.name, MemoryOperand)
        /\ ZeroNegativeOf(Shifted(last.name, MemoryOperand, OldCarry))
        /\ registers.a = last.registers.a

\* ror of 0x01 in 0x1234 with Carry set: 0x80 is stored, Carry stays set.
C23_Witness ==
    /\ Returned("ror") /\ last.mode = "Absolute"
    /\ EffectiveAddress = 4660 /\ MemoryOperand = 1 /\ OldCarry = 1
    /\ Ram_read(memory, 4660) = 128
    /\ Bit(registers.status, Carry) = 1 /\ Bit(registers.status, Negative) = 1

\* C24: in Accumulator mode ASL, LSR, ROL and ROR shift the accumulator into
\* the accumulator and access no memory: every memory byte is unchanged.
C24_ShiftAccumulator ==
    (last.op = "call" /\ last.name \in Shifts /\ ~panicked
        /\ last.mode = "Accumulator") =>
        /\ registers.a = Shifted(last.name, last.registers.a, OldCarry)
        /\ memory = last.memory

\* ------------------------------------------------ increment and decrement
\* inc and dec, and the undocumented dcp and isc, on the arranged operand.
CallIncDec ==
    \E name \in {"inc", "dec", "dcp", "isc"}, mode \in {"ZeroPage", "Absolute"} :
        Call(name, mode)

NextIncDec == ArrangeOperand \/ CallIncDec

SpecIncDec == Init /\ [][NextIncDec]_vars

Stepped8(name, v) == IF name = "inc" THEN (v + 1) % 256 ELSE (v + 255) % 256

Before == [registers |-> last.registers, memory |-> last.memory, trap |-> FALSE]

SansPc(cpu) ==
    <<cpu.registers.a, cpu.registers.x, cpu.registers.y, cpu.registers.sp,
      cpu.registers.status, cpu.memory>>

\* A second handler run on the address the first one resolved.
DecThenCmp(cpu, mode) ==
    cmp_on(fetch_at([cpu |-> dec(cpu, mode), value |-> get_address(cpu, mode).value]))

IncThenSbc(cpu, mode) ==
    sbc_on(fetch_at([cpu |-> inc(cpu, mode), value |-> get_address(cpu, mode).value]))

\* C27: the state after the DCP handler is the state after DEC then CMP on the
\* same operand address, and the state after the ISC handler is the state
\* after INC then SBC on the same operand address (registers other than pc,
\* flags and memory).
C27_Compositions ==
    /\ Returned("dcp") => SansPc(Cpu) = SansPc(DecThenCmp(Before, last.mode))
    /\ Returned("isc") => SansPc(Cpu) = SansPc(IncThenSbc(Before, last.mode))

\* --------------------------------------------------- index register steps
\* X, Y and the flags before an index step at 0x0200, over a memory whose
\* byte 0x0000 is 0x00 or 0x7F.
ArrangeIndex ==
    \E x \in ByteSample, y \in ByteSample, status \in StatusSample,
       zero \in {0, 127} :
        Arranged([get_cpu(512) EXCEPT !.a = 170, !.x = x, !.y = y, !.status = status],
                 Ram_write(Ram_write(Ram_new, 512, 232), 0, zero))

CallIndex == \E name \in {"inx", "iny", "dex", "dey"} : Call(name, "Implied")

NextIndex == ArrangeIndex \/ CallIndex

SpecIndex == Init /\ [][NextIndex]_vars

\* The register an index step names, before and after it.
IndexBefore == IF last.name \in {"inx", "dex"} THEN last.registers.x ELSE last.registers.y
IndexAfter == IF last.name \in {"inx", "dex"} THEN registers.x ELSE registers.y
IndexResult ==
    IF last.name \in {"inx", "iny"} THEN (IndexBefore + 1) % 256
    ELSE (IndexBefore + 255) % 256

\* C26: INX, INY, DEX and DEY set their register to its old value plus or
\* minus 1 mod 256, whatever memory holds, set Zero and Negative from the
\* result and leave Carry unchanged.
C26_IndexSteps ==
    (last.op = "call" /\ last.name \in {"inx", "iny", "dex", "dey"} /\ ~panicked) =>
        /\ IndexAfter = IndexResult
        /\ ZeroNegativeOf(IndexResult)
        /\ Bit(registers.status, Carry) = Bit(last.registers.status, Carry)

\* --------------------------------------------------------- loads and logic
CallLoad ==
    \E name \in {"lda", "ldx", "ldy", "and", "ora", "eor"},
       mode \in {"Immediate", "ZeroPage", "Absolute"} :
        Call(name, mode)

NextLoad == ArrangeOperand \/ CallLoad

SpecLoad == Init /\ [][NextLoad]_vars

\* The operand byte: the byte after the opcode for Immediate, else the byte
\* at the effective address.
LoadOperand == IF last.mode = "Immediate" THEN OperandLow ELSE MemoryOperand

\* The registers a load or a logic handler must not touch.
SameRegisters(names) ==
    /\ "a" \in names => registers.a = last.registers.a
    /\ "x" \in names => registers.x = last.registers.x
    /\ "y" \in names => registers.y = last.registers.y
    /\ "sp" \in names => registers.sp = last.registers.sp

SameCarryOverflow ==
    /\ Bit(registers.status, Carry) = Bit(last.registers.status, Carry)
    /\ Bit(registers.status, Overflow) = Bit(last.registers.status, Overflow)

\* C28: LDA, LDX and LDY set A, X and Y to the operand byte, set Zero and
\* Negative from it, and leave the other two registers, the stack pointer,
\* Carry, Overflow and memory unchanged.
C28_Loads ==
    /\ Returned("lda") => registers.a = LoadOperand /\ SameRegisters({"x", "y", "sp"})
    /\ Returned("ldx") => registers.x = LoadOperand /\ SameRegisters({"a", "y", "sp"})
    /\ Returned("ldy") => registers.y = LoadOperand /\ SameRegisters({"a", "x", "sp"})
    /\ (last.op = "call" /\ last.name \in {"lda", "ldx", "ldy"} /\ ~panicked) =>
        /\ ZeroNegativeOf(LoadOperand)
        /\ SameCarryOverflow
        /\ memory = last.memory

\* ldx of 0x80 from 0x1234 over A = 0x01: X is 0x80 and Negative is set.
C28_Witness ==
    /\ Returned("ldx") /\ last.mode = "Absolute" /\ EffectiveAddress = 4660
    /\ LoadOperand = 128 /\ last.registers.a = 1
    /\ Bit(last.registers.status, Negative) = 0
    /\ registers.x = 128 /\ registers.a = 1 /\ registers.y = 51
    /\ Bit(registers.status, Negative) = 1 /\ Bit(registers.status, Zero) = 0

Logic(name, a, m) ==
    CASE name = "and" -> BitAnd(a, m)
      [] name = "ora" -> BitOr(a, m)
      [] name = "eor" -> BitXor(a, m)

\* C29: AND, ORA and EOR set the accumulator to the bitwise AND, OR and
\* exclusive-OR of the old accumulator and the operand byte, set Zero and
\* Negative from the result, and leave Carry, Overflow, X, Y and memory
\* unchanged.
C29_Logic ==
    (last.op = "call" /\ last.name \in {"and", "ora", "eor"} /\ ~panicked) =>
        /\ registers.a = Logic(last.name, last.registers.a, LoadOperand)
        /\ ZeroNegativeOf(Logic(last.name, last.registers.a, LoadOperand))
        /\ SameCarryOverflow
        /\ SameRegisters({"x", "y"})
        /\ memory = last.memory

\* ora of 0x80 into A = 0x7F gives 0xFF with Negative set; X and Y stay.
C29_Witness ==
    /\ Returned("ora") /\ last.mode = "Immediate"
    /\ last.registers.a = 127 /\ LoadOperand = 128
    /\ registers.a = 255
    /\ Bit(registers.status, Negative) = 1 /\ Bit(registers.status, Zero) = 0
    /\ registers.x = 85 /\ registers.y = 51

\* C30: a step of an opcode the table names NOP moves pc by exactly 1 mod
\* 65536 and leaves A, X, Y, sp, the status byte and every memory byte as
\* they were.
C30_Nop ==
    (Stepped /\ last.name = "NOP") =>
        /\ registers.pc = (last.registers.pc + 1) % 65536
        /\ SameRegisters({"a", "x", "y", "sp"})
        /\ registers.status = last.registers.status
        /\ memory = last.memory

\* 0xEA at 0xFFFF with every flag set: pc wraps to 0x0000, the rest stays.
C30_Witness ==
    /\ Stepped /\ last.name = "NOP" /\ last.mode = "Implied"
    /\ Ram_read(last.memory, last.registers.pc) = 234
    /\ last.registers.pc = 65535 /\ last.registers.status = 255
    /\ registers.pc = 0 /\ registers.status = 255 /\ registers.a = 1

\* --------------------------------------------------- the execution state
\* C31: a step that returns gives Stopped exactly when the opcode it ran is
\* named KIL or BRK, and Running after every other opcode; it never gives
\* anything else.
C31_ExecutionState ==
    Stepped =>
        last.state = (IF last.name \in {OPCODE_KIL, "BRK"} THEN "Stopped" ELSE "Running")

\* A BRK at 0x0200 over an empty memory: the step returns Stopped with pc
\* taken from the vector.
C31_Witness ==
    /\ Stepped /\ last.name = "BRK" /\ last.state = "Stopped"
    /\ Ram_read(last.memory, last.registers.pc) = 0
    /\ last.registers.pc = 512 /\ registers.pc = 0 /\ registers.sp = 252

\* C35: in every state pc lies in 0..65535, and no step returns Error.
C35_PcInRange ==
    /\ registers.pc \in 0..(MEMORY_SIZE - 1)
    /\ last.op = "step" => last.state # "Error"

\* A step of a one-byte opcode at 0xFFFF returns Running with pc wrapped to
\* the start of memory.
C35_Witness ==
    /\ Stepped /\ last.registers.pc = MEMORY_SIZE - 1 /\ registers.pc = 0
    /\ last.state = "Running" /\ steps = 1

\* ------------------------------------------------------------ the memory
\* Addresses at both ends of memory, and the sequences load is given.
AddressSample == {0, 1, 65534, 65535}
LoadOffset == {1, 65534}
LoadByte == {0, 129}
LoadData == UNION {[1..n -> LoadByte] : n \in 1..MaxLen}

\* One operation of Ram on the processor's memory; `value` keeps its
\* arguments (and what read returned).
RamOp(ram, trap, name, value) ==
    /\ ~panicked
    /\ last.op \in {"new", "ram"}
    /\ steps < MaxSteps
    /\ steps' = steps + 1
    /\ Commit([registers |-> registers, memory |-> ram, trap |-> trap],
              "ram", name, "", value, "None")
    /\ UNCHANGED frame

RamWrite ==
    \E a \in AddressSample, b \in ByteSample :
        RamOp(Ram_write(memory, a, b), FALSE, "write", <<a, b>>)

RamRead ==
    \E a \in AddressSample :
        RamOp(memory, FALSE, "read", <<a, Ram_read(memory, a)>>)

RamLoad ==
    \E data \in LoadData, offset \in LoadOffset :
        RamOp(Ram_load(memory, data, offset).memory,
              Ram_load(memory, data, offset).trap, "load", <<offset, data>>)

RamReset == RamOp(Ram_reset(memory), FALSE, "reset", <<>>)

NextRam == RamWrite \/ RamRead \/ RamLoad \/ RamReset

SpecRam == Init /\ [][NextRam]_vars

RamDid(name) == last.op = "ram" /\ last.name = name /\ ~panicked

\* The byte array Ram holds: the byte of cell k.
Cell(ram, k) == IF k \in DOMAIN ram THEN ram[k] ELSE 0

\* The cells that any memory of the two states, or the sample, mentions.
Cells == DOMAIN memory \cup DOMAIN last.memory \cup AddressSample

\* The index of cell k in a load at `offset`, counted mod 65536.
LoadIndex(k) == (k + 65536 - last.value[1]) % 65536

\* After load(bytes, offset): cell (offset + i) mod 65536 holds bytes[i], and
\* every other cell is as before.
LoadStored ==
    \A k \in Cells :
        Cell(memory, k) = IF LoadIndex(k) < Len(last.value[2])
                          THEN last.value[2][LoadIndex(k) + 1]
                          ELSE Cell(last.memory, k)

\* C33: read(a) returns the byte most recently stored at a, or 0 when nothing
\* was stored since construction or reset(): a new Ram is all zero, write(a, b)
\* makes cell a hold b and changes no other cell, a load that returns stores
\* its bytes, read returns the cell and changes none, and reset() leaves
\* every cell 0.
C33_Ram ==
    /\ last.op = "new" => \A k \in Cells : Cell(memory, k) = 0
    /\ RamDid("write") =>
        \A k \in Cells :
            Cell(memory, k) = IF k = last.value[1] THEN last.value[2]
                              ELSE Cell(last.memory, k)
    /\ RamDid("read") =>
        /\ last.value[2] = Cell(last.memory, last.value[1])
        /\ \A k \in Cells : Cell(memory, k) = Cell(last.memory, k)
    /\ RamDid("load") => LoadStored
    /\ RamDid("reset") => \A k \in Cells : Cell(memory, k) = 0
    /\ last.op \in {"new", "ram"} => \A k \in DOMAIN memory : k \in 0..(MEMORY_SIZE - 1)

\* write(0xFFFF, 0xFF), then write(0xFFFF, 0x00): the cell reads 0 again.
C33_Witness ==
    /\ RamDid("write") /\ last.value = <<65535, 0>>
    /\ Cell(last.memory, 65535) = 255 /\ Cell(memory, 65535) = 0

\* C34: load(bytes, offset) returns, having stored bytes[i] at address
\* (offset + i) mod 65536 for every i, past 0xFFFF and on to address 0 too,
\* and having changed no other address.
C34_Load ==
    (last.op = "ram" /\ last.name = "load") =>
        /\ ~panicked
        /\ LoadStored

\* ------------------------------------------------ subtraction's overflow
\* The signed difference sbc computes: A - M - (1 - C) over signed bytes.
SignedDifference ==
    Signed(last.registers.a) - Signed(AluOperand)
        - (1 - Bit(last.registers.status, Carry))

\* C36: after sbc Overflow is set exactly when the signed value of A minus
\* the signed value of M minus (1 - C) lies outside -128..127.
C36_SbcOverflow ==
    Returned("sbc") =>
        (Bit(registers.status, Overflow) = 1) = (SignedDifference \notin -128..127)

\* ---------------------------------------------------- reset, called twice
\* C37: reset() changes no memory byte, and a reset() that follows a reset()
\* leaves the registers, flags and memory the first one left.
C37_ResetIdempotent ==
    (last.op = "reset" /\ ~panicked) =>
        /\ memory = last.memory
        /\ reset(Cpu) = Cpu
        /\ steps >= 2 => registers = last.registers

\* The second of two resets over a vector of 0x0200: pc is 0x0200 before and
\* after it, and the vector and the program byte are still in memory.
C37_Witness ==
    /\ last.op = "reset" /\ steps = 2
    /\ last.registers.pc = 512 /\ last.registers.sp = 255
    /\ registers.pc = 512 /\ registers.sp = 255 /\ registers.a = 0
    /\ Ram_read(memory, RESET_ADDRESS_HIGH) = 2 /\ Ram_read(memory, 512) = 234

\* ------------------------------------------- a handler and its counterpart
\* The handlers that are undone or read back by a second one, and that one.
Paired == {"pha", "php", "brk", "sta"}

Counterpart(name) ==
    CASE name = "pha" -> "pla" [] name = "php" -> "plp"
      [] name = "brk" -> "rti" [] name = "sta" -> "lda"

PairStatus == StatusSample \cup {Break, 255 - Break}

\* An instruction whose operand bytes name the zero-page cell, stale bytes in
\* the cell and on the stack, and the interrupt vector.
ArrangePair ==
    \E a \in ByteSample, status \in PairStatus, sp \in {0, 1, 2, 255},
       pc \in {512, 65531, 65534} :
        Arranged([get_cpu(pc) EXCEPT !.a = a, !.x = 85, !.y = 51, !.sp = sp,
                                     !.status = status],
                 Ram_write(Ram_write(Ram_write(Ram_write(Ram_write(Ram_new,
                     pc + 1, ZP_CELL), ZP_CELL, 170), STACK_SIZE + sp, 102),
                     IRQ_VECTOR, 52), IRQ_VECTOR + 1, 18))

\* The first call after the arrangement; frame keeps the processor before it.
First ==
    \E name \in Paired \cup {"stx", "sty"},
       mode \in {"Implied", "ZeroPage", "Absolute"} :
        /\ (mode = "Implied") = (name \in {"pha", "php", "brk"})
        /\ last.op = "arrange"
        /\ Invoke(name, mode)
        /\ frame' = [kind |-> "first", name |-> name, mode |-> mode,
                     registers |-> registers, memory |-> memory]
        /\ UNCHANGED steps

\* The counterpart, called next; before the lda the harness points pc at the
\* instruction again, so that it resolves the address the sta resolved.
Second ==
    /\ ~panicked
    /\ last.op = "call"
    /\ frame.kind = "first"
    /\ frame.name \in Paired
    /\ Commit(execute(Counterpart(frame.name),
                      IF frame.name = "sta"
                      THEN [Cpu EXCEPT !.registers.pc = frame.registers.pc]
                      ELSE Cpu,
                      frame.mode),
              "call", Counterpart(frame.name), frame.mode, -1, "None")
    /\ frame' = [frame EXCEPT !.kind = "pair"]
    /\ UNCHANGED steps

NextPair == ArrangePair \/ First \/ Second

SpecPair == Init /\ [][NextPair]_vars

\* The first call has returned; the pair has returned.
DidFirst(name) == frame.kind = "first" /\ frame.name = name /\ ~panicked
DidPair(name) == frame.kind = "pair" /\ frame.name = name /\ ~panicked

\* C38: PHA then PLA leaves the accumulator and sp as before the PHA; PHP
\* leaves the status as it was and pushes it with Break set; PHP then PLP
\* leaves the status equal to the old one with Break set, and sp restored.
C38_PushPull ==
    /\ DidPair("pha") =>
        /\ registers.a = frame.registers.a
        /\ registers.sp = frame.registers.sp
    /\ DidFirst("php") =>
        /\ registers.status = frame.registers.status
        /\ Bit(Ram_read(memory, STACK_SIZE + frame.registers.sp), Break) = 1
        /\ Ram_read(memory, STACK_SIZE + frame.registers.sp)
            = WithFlag(frame.registers.status, Break)
    /\ DidPair("php") =>
        /\ registers.status = WithFlag(frame.registers.status, Break)
        /\ registers.sp = frame.registers.sp

\* php then plp with sp = 0x00 and status 0x01: sp wraps to 0xFF and back,
\* and the status comes back as 0x11.
C38_Witness ==
    /\ DidPair("php")
    /\ frame.registers.sp = 0 /\ frame.registers.status = Carry
    /\ registers.sp = 0 /\ registers.status = Carry + Break
    /\ Ram_read(memory, STACK_SIZE) = Carry + Break

\* C39: BRK then RTI restores sp, leaves the status equal to the old one with
\* Break set, and sets pc to the value it had when BRK began.
C39_BrkRti ==
    DidPair("brk") =>
        /\ registers.sp = frame.registers.sp
        /\ registers.status = WithFlag(frame.registers.status, Break)
        /\ registers.pc = frame.registers.pc

\* brk at 0xFFFB with sp = 0x01 and status 0x01, then rti: pc is 0xFFFB again
\* after the detour through the vector 0x1234.
C39_Witness ==
    /\ DidPair("brk")
    /\ frame.registers.pc = 65531 /\ frame.registers.sp = 1
    /\ frame.registers.status = Carry
    /\ last.registers.pc = 4660 /\ last.registers.sp = 254
    /\ Bit(last.registers.status, Interrupt) = 1
    /\ registers.pc = 65531 /\ registers.sp = 1 /\ registers.status = Carry + Break

\* The register a store writes.
Stored(name) ==
    CASE name = "sta" -> frame.registers.a
      [] name = "stx" -> frame.registers.x
      [] name = "sty" -> frame.registers.y

\* C40: STA, STX and STY write A, X and Y at the effective address and change
\* no other memory byte, no register other than pc and no flag; an LDA from
\* the address of the STA before it leaves the accumulator as it was.
C40_Stores ==
    /\ (frame.kind = "first" /\ frame.name \in {"sta", "stx", "sty"} /\ ~panicked) =>
        /\ memory = Ram_write(frame.memory, EffectiveAddress, Stored(frame.name))
        /\ Ram_read(memory, EffectiveAddress) = Stored(frame.name)
        /\ SameRegisters({"a", "x", "y", "sp"})
        /\ registers.status = frame.registers.status
    /\ DidPair("sta") => registers.a = frame.registers.a

\* sta of 0x80 to the zero-page cell that held 0xAA, then lda: A is 0x80.
C40_Witness ==
    /\ DidPair("sta") /\ frame.mode = "ZeroPage"
    /\ frame.registers.a = 128 /\ Ram_read(frame.memory, ZP_CELL) = 170
    /\ Ram_read(memory, ZP_CELL) = 128 /\ registers.a = 128
    /\ Bit(frame.registers.status, Negative) = 0 /\ Bit(registers.status, Negative) = 1

====
